---- MODULE Spec2Model ----
(***************************************************************************)
(* A model of the go-loadbalancer request path: the backends, the          *)
(* selection strategies, the coordinator (LoadBalancer), the circuit       *)
(* breaker and the forwarding handler (LoadBalancerHandler.ServeHTTP).     *)
(***************************************************************************)
EXTENDS Integers, Sequences, FiniteSets, TLC

(***************************************************************************)
(* Bounds of the model.                                                    *)
(***************************************************************************)
NumBackends == 2
NumRequests == 2
MaxRetriesCfg == 1
FailureThreshold == 2
MaxThreshold == 2
ResetTimeout == 1
VirtualNodes == 2
MaxOps == 6
NumGetters == 2
MaxGets == 4
BufferSize == 2
NumEmitters == 2
NumCallers == 2
MaxSelections == 4
MaxWeight == 2
MaxActive == 1
MaxEWMA == 2
MaxLeastResponse == 2
MaxCalls == 3
SampleWindow == 2
MaxDuration == 2
MaxMetricOps == 4
MaxRebuilds == 1

Backends == 1..NumBackends
Requests == 1..NumRequests

(***************************************************************************)
(* hash/crc32.ChecksumIEEE, on 32-bit words kept as <<high, low>> halves   *)
(* of 16 bits each (a 32-bit word exceeds the integers TLC computes with). *)
(***************************************************************************)
RECURSIVE Xor16(_, _)
Xor16(a, b) ==
    IF a = 0 THEN b
    ELSE IF b = 0 THEN a
    ELSE ((a + b) % 2) + 2 * Xor16(a \div 2, b \div 2)

Xor32(x, y) == <<Xor16(x[1], y[1]), Xor16(x[2], y[2])>>

Shr1(x) == <<x[1] \div 2, (x[2] \div 2) + (x[1] % 2) * 32768>>

CrcPoly == <<60856, 33568>>

AllOnes == <<65535, 65535>>

RECURSIVE CrcBits(_, _)
CrcBits(crc, n) ==
    IF n = 0 THEN crc
    ELSE IF crc[2] % 2 = 1
         THEN CrcBits(Xor32(Shr1(crc), CrcPoly), n - 1)
         ELSE CrcBits(Shr1(crc), n - 1)

RECURSIVE CrcUpdate(_, _)
CrcUpdate(crc, bytes) ==
    IF bytes = <<>> THEN crc
    ELSE CrcUpdate(CrcBits(Xor32(crc, <<0, Head(bytes)>>), 8), Tail(bytes))

ChecksumIEEE(bytes) == Xor32(CrcUpdate(AllOnes, bytes), AllOnes)

\* uint32 order on the split words
Less32(x, y) == x[1] < y[1] \/ (x[1] = y[1] /\ x[2] < y[2])

(***************************************************************************)
(* State.                                                                  *)
(*   cfg       the wiring: strategy kind, handler maxRetries, whether a    *)
(*             breaker registry is attached, the registry's threshold      *)
(*   healthy   Backend.isHealthy                                           *)
(*   conns     Backend.activeConnections                                   *)
(*   breakers  the registry's CircuitBreaker of each backend URL; age is   *)
(*             time.Since(lastFailure), saturated at ResetTimeout          *)
(*   upstream  whether each upstream server answers every forward (sound)  *)
(*             or may fail (flaky)                                         *)
(*   strat     the strategy object's fields                                *)
(*   req       the locals of each ServeHTTP call and its response writer   *)
(*   cb, cbThreshold                                                       *)
(*             one stand-alone CircuitBreaker, driven by arbitrary calls   *)
(*   lastOp, lastAllow, prevState, streak, succeeded, ops                  *)
(*             what is recorded of those calls: the last call and what an  *)
(*             Allow returned, the state before it, the failures since the *)
(*             last success, whether a success was recorded, the calls     *)
(*   registry  a stand-alone Registry: its map from URL to breaker (the    *)
(*             breakers are numbered as they are made, 0 is no entry), its *)
(*             RWMutex, the number of breakers made for each URL and the   *)
(*             number of GetBreaker calls                                  *)
(*   getters   the locals of the concurrent GetBreaker calls               *)
(*   handed    the <<url, breaker>> pairs GetBreaker has returned          *)
(*   ctxDone   whether the root context of the health checks is cancelled  *)
(*   hc        the HealthCheck loop of each backend: where it is, whether  *)
(*             its ticker has a tick ready, its stop logs, and what its    *)
(*             last completed probe did                                    *)
(*   eventCh   the metrics channel, a queue of at most BufferSize events   *)
(*   store     the collector's Metrics: events applied, by kind            *)
(*   collector where Collector.run is, and how many of the events that     *)
(*             were enqueued before the cancellation it has been given and *)
(*             has processed                                               *)
(*   emitters  handler attempts that emit their events: where each is, how *)
(*             its upstream answered, how many of its events were dropped  *)
(***************************************************************************)
VARIABLES cfg, healthy, conns, breakers, upstream, strat, req,
          cb, cbThreshold, lastOp, lastAllow, prevState, streak, succeeded, ops,
          registry, getters, handed,
          ctxDone, hc,
          eventCh, store, collector, emitters,
          selector, weight, callers, selected, lastInput,
          pool, lbCalls, lbLast, lbCount,
          mx, snap, snapSeen, recorded, mxOps

handlerVars == <<cfg, healthy, conns, breakers, upstream, strat, req>>
breakerVars == <<cb, cbThreshold, lastOp, lastAllow, prevState, streak, succeeded, ops>>
registryVars == <<registry, getters, handed>>
proberVars == <<ctxDone, hc>>
collectorVars == <<eventCh, store, collector, emitters>>
strategyVars == <<selector, weight, callers, selected, lastInput>>
coordinatorVars == <<pool, lbCalls, lbLast, lbCount>>
metricsVars == <<mx, snap, snapSeen, recorded, mxOps>>
vars == <<handlerVars, breakerVars, registryVars, proberVars, collectorVars,
          strategyVars, coordinatorVars, metricsVars>>

\* what a step of one component leaves alone: the other components
offHandler == <<breakerVars, registryVars, proberVars, collectorVars, strategyVars,
                coordinatorVars, metricsVars>>
offBreaker == <<handlerVars, registryVars, proberVars, collectorVars, strategyVars,
                coordinatorVars, metricsVars>>
offRegistry == <<handlerVars, breakerVars, proberVars, collectorVars, strategyVars,
                 coordinatorVars, metricsVars>>
offProber == <<cfg, conns, breakers, upstream, strat, req, breakerVars, registryVars,
               collectorVars, strategyVars, coordinatorVars, metricsVars>>
offCollector == <<handlerVars, breakerVars, registryVars, hc, strategyVars,
                  coordinatorVars, metricsVars>>
offStrategy == <<handlerVars, breakerVars, registryVars, proberVars, collectorVars,
                 coordinatorVars, metricsVars>>
offMetrics == <<handlerVars, breakerVars, registryVars, proberVars, collectorVars,
                strategyVars, coordinatorVars>>
offCoordinator == <<handlerVars, breakerVars, registryVars, proberVars, collectorVars,
                    callers, selected, lastInput, metricsVars>>

(***************************************************************************)
(* internal/circuitbreaker/breaker.go                                      *)
(***************************************************************************)
StateClosed == "CLOSED"
StateOpen == "OPEN"
StateHalfOpen == "HALF-OPEN"
States == {StateClosed, StateOpen, StateHalfOpen}

\* The zero lastFailure lies further back than any resetTimeout.
NewCircuitBreaker == [state |-> StateClosed, failures |-> 0, age |-> ResetTimeout]

AllowOpenLatched(b) == [cb |-> b, ok |-> b.state # StateOpen]

\* Allow with a HALF_OPEN breaker refusing further probes
AllowHalfOpenRefuses(b) ==
    CASE b.state = StateOpen ->
            IF b.age >= ResetTimeout
            THEN [cb |-> [b EXCEPT !.state = StateHalfOpen], ok |-> TRUE]
            ELSE [cb |-> b, ok |-> FALSE]
      [] b.state = StateHalfOpen -> [cb |-> b, ok |-> FALSE]
      [] OTHER -> [cb |-> b, ok |-> TRUE]

\* Allow: the breaker after the call and the value returned.
Allow(b) ==
    CASE b.state = StateClosed -> [cb |-> b, ok |-> TRUE]
      [] b.state = StateOpen ->
            IF b.age >= ResetTimeout
            THEN [cb |-> [b EXCEPT !.state = StateHalfOpen], ok |-> TRUE]
            ELSE [cb |-> b, ok |-> FALSE]
      [] b.state = StateHalfOpen -> [cb |-> b, ok |-> TRUE]
      [] OTHER -> [cb |-> b, ok |-> TRUE]

RecordFailureOffByOne(b, threshold) ==
    LET f == b.failures + 1
        s1 == IF b.state = StateHalfOpen THEN StateOpen ELSE b.state
    IN  [state |-> IF f > threshold THEN StateOpen ELSE s1, failures |-> f, age |-> 0]

RecordFailureHalfOpenStays(b, threshold) ==
    LET f == b.failures + 1
    IN  [state |-> IF b.state = StateHalfOpen THEN StateHalfOpen
                   ELSE IF f >= threshold THEN StateOpen ELSE b.state,
         failures |-> f, age |-> 0]

\* RecordFailure without the threshold test
RecordFailureNeverTrips(b, threshold) ==
    [state |-> IF b.state = StateHalfOpen THEN StateOpen ELSE b.state,
     failures |-> b.failures + 1, age |-> 0]

\* RecordFailure that leaves lastFailure alone on a breaker that is not CLOSED
RecordFailureKeepsTimer(b, threshold) ==
    LET f == b.failures + 1
        s1 == IF b.state = StateHalfOpen THEN StateOpen ELSE b.state
        s2 == IF f >= threshold THEN StateOpen ELSE s1
    IN  [state |-> s2, failures |-> f,
         age |-> IF b.state = StateClosed THEN 0 ELSE b.age]

RecordFailure(b, threshold) ==
    LET f == b.failures + 1
        s1 == IF b.state = StateHalfOpen THEN StateOpen ELSE b.state
        s2 == IF f >= threshold THEN StateOpen ELSE s1
    IN  [state |-> s2, failures |-> f, age |-> 0]

RecordSuccessKeepsCount(b) == [b EXCEPT !.state = StateClosed]

RecordSuccess(b) == [b EXCEPT !.failures = 0, !.state = StateClosed]

\* time passing, as seen through time.Since(lastFailure) >= resetTimeout
Older(b) == [b EXCEPT !.age = IF @ < ResetTimeout THEN @ + 1 ELSE @]

(***************************************************************************)
(* internal/backend: the connection counter and the health flag            *)
(***************************************************************************)
NewHealthy == [isHealthy |-> TRUE, activeConnections |-> 0]

\* New: a backend as constructed
New == [isHealthy |-> FALSE, activeConnections |-> 0]

IncrementConn(n) == n + 1

\* DecrementConn that leaves the counter as it is
DecrementConnSkipped(n) == n

DecrementConn(n) == IF n > 0 THEN n - 1 ELSE n

\* SetHealthy: the flag after the call and the value returned
SetHealthyAlwaysChanged(flag, h) == [flag |-> h, changed |-> TRUE]

SetHealthy(flag, h) == [flag |-> h, changed |-> flag # h]

\* Backend.URL().String() as bytes: "http://a", "http://b", ...
URL(b) == <<104, 116, 116, 112, 58, 47, 47, 96 + b>>

(***************************************************************************)
(* internal/strategy: round-robin, random, least-conn and consistent_hash.  *)
(* These four are the kinds the request path is modelled with;             *)
(* least-response and weighted-round-robin read fields that path does not  *)
(* write, and are modelled with the strategy component further down.       *)
(***************************************************************************)
StrategyKinds == {"round-robin", "random", "least-conn", "consistent_hash"}

\* roundRobinStrategy.SelectBackend with the index taken from n, not n - 1
RoundRobinSelectFromN(backends, current) ==
    LET n == current + 1
        index == n % Len(backends)
    IN  [chosen |-> backends[index + 1], current |-> n]

\* roundRobinStrategy.SelectBackend: the backend and the counter after the call
RoundRobinSelect(backends, current) ==
    LET n == current + 1
        index == (n - 1) % Len(backends)
    IN  [chosen |-> backends[index + 1], current |-> n]

\* leastConnStrategy.SelectBackend: the first backend with the fewest connections
RECURSIVE LeastConnScan(_, _, _, _, _)
LeastConnScan(backends, c, i, bestBackend, bestConns) ==
    IF i > Len(backends) THEN bestBackend
    ELSE IF c[backends[i]] < bestConns
         THEN LeastConnScan(backends, c, i + 1, backends[i], c[backends[i]])
         ELSE LeastConnScan(backends, c, i + 1, bestBackend, bestConns)

MaxInt32 == 2147483647

LeastConnSelect(backends, c) ==
    IF Len(backends) = 0 THEN 0 ELSE LeastConnScan(backends, c, 1, 0, MaxInt32)

\* strconv.Itoa for n >= 0
RECURSIVE Itoa(_)
Itoa(n) == IF n < 10 THEN <<48 + n>> ELSE Itoa(n \div 10) \o <<48 + (n % 10)>>

\* sort.Slice(positions, <): insertion sort on the split words
RECURSIVE InsertSorted(_, _)
InsertSorted(sorted, x) ==
    IF sorted = <<>> THEN <<x>>
    ELSE IF Less32(x, Head(sorted)) THEN <<x>> \o sorted
    ELSE <<Head(sorted)>> \o InsertSorted(Tail(sorted), x)

RECURSIVE SortPositions(_)
SortPositions(ps) ==
    IF ps = <<>> THEN <<>> ELSE InsertSorted(SortPositions(Tail(ps)), Head(ps))

\* the (hash, backend) pairs in the order buildRing's loops insert them
RECURSIVE RingEntries(_, _, _, _)
RingEntries(backends, vnodes, bi, i) ==
    IF bi > Len(backends) THEN <<>>
    ELSE IF i >= vnodes THEN RingEntries(backends, vnodes, bi + 1, 0)
    ELSE <<[hash |-> ChecksumIEEE(URL(backends[bi]) \o <<35>> \o Itoa(i)),
            owner |-> backends[bi]]>>
         \o RingEntries(backends, vnodes, bi, i + 1)

\* owners[hash] = b: a later insertion replaces an earlier one
LastOwner(entries, h) ==
    LET idx == {k \in 1..Len(entries) : entries[k].hash = h}
    IN  entries[CHOOSE k \in idx : \A m \in idx : m <= k].owner

EmptyRing == [positions |-> <<>>, owners |-> <<>>]

buildRing(backends, vnodes) ==
    LET entries == RingEntries(backends, vnodes, 1, 0)
        hashes == {entries[k].hash : k \in 1..Len(entries)}
    IN  [positions |-> SortPositions([k \in 1..Len(entries) |-> entries[k].hash]),
         owners |-> [h \in hashes |-> LastOwner(entries, h)]]

\* sort.Search(n, f) over 0-based indexes: binary search for the first i with
\* positions[i] >= hash
RECURSIVE SearchFrom(_, _, _, _)
SearchFrom(positions, hash, i, j) ==
    IF i < j
    THEN LET h == (i + j) \div 2
         IN  IF Less32(positions[h + 1], hash)
             THEN SearchFrom(positions, hash, h + 1, j)
             ELSE SearchFrom(positions, hash, i, h)
    ELSE i

\* ringSnapshot.lookup; 0 stands for nil
lookup(rs, hash) ==
    IF Len(rs.positions) = 0 THEN 0
    ELSE LET found == SearchFrom(rs.positions, hash, 0, Len(rs.positions))
             idx == IF found = Len(rs.positions) THEN 0 ELSE found
         IN  rs.owners[rs.positions[idx + 1]]

\* consistentHashStrategy.SelectBackend building a ring from every call's list
ConsistentHashSelectRebuilds(backends, st) ==
    LET rs == buildRing(backends, VirtualNodes)
    IN  [chosen |-> lookup(rs, st.hashKey), ring |-> rs]

\* consistentHashStrategy.SelectBackend: the backend and the ring after the call
ConsistentHashSelect(backends, st) ==
    LET rs == IF Len(st.ring.positions) = 0
              THEN buildRing(backends, VirtualNodes)
              ELSE st.ring
    IN  [chosen |-> lookup(rs, st.hashKey), ring |-> rs]


\* the client identities extractClientIP yields, "10.0.0.1" and "10.0.0.2",
\* with their checksums (computed once)
ClientIPs == {<<49, 48, 46, 48, 46, 48, 46, 49>>, <<49, 48, 46, 48, 46, 48, 46, 50>>}

ClientIPChecksum == [key \in ClientIPs |-> ChecksumIEEE(key)]

\* SetKey storing the hash of one fixed key, whoever calls
SetKeyOfOneClient(key) == ClientIPChecksum[CHOOSE k \in ClientIPs : TRUE]

\* consistentHashStrategy.SetKey
SetKey(key) == IF key \in ClientIPs THEN ClientIPChecksum[key] ELSE ChecksumIEEE(key)

\* NewRoundRobinStrategy / NewConsistentHashStrategy: a fresh strategy object
NewStrategy == [current |-> 0, hashKey |-> <<0, 0>>, ring |-> EmptyRing]

(***************************************************************************)
(* internal/loadbalancer: the coordinator                                  *)
(***************************************************************************)
\* the elements of a list that satisfy keep, in the list's order
RECURSIVE Filter(_, _)
Filter(list, keep) ==
    IF list = <<>> THEN <<>>
    ELSE IF keep[Head(list)] THEN <<Head(list)>> \o Filter(Tail(list), keep)
    ELSE Filter(Tail(list), keep)

filterHealthyBackends(backends, h) == Filter(backends, h)

\* Strategy.SelectBackend under the coordinator's mutex: the set of possible
\* results [chosen, strat] (several for the random strategy only)
StrategySelect(kind, candidates, st, c) ==
    CASE kind = "round-robin" ->
            LET r == RoundRobinSelect(candidates, st.current)
            IN  {[chosen |-> r.chosen, strat |-> [st EXCEPT !.current = r.current]]}
      [] kind = "random" ->
            {[chosen |-> candidates[i], strat |-> st] : i \in 1..Len(candidates)}
      [] kind = "least-conn" ->
            {[chosen |-> LeastConnSelect(candidates, c), strat |-> st]}
      [] kind = "consistent_hash" ->
            LET r == ConsistentHashSelect(candidates, st)
            IN  {[chosen |-> r.chosen, strat |-> [st EXCEPT !.ring = r.ring]]}

\* the capability probe strategy.(interface{ SetKey(string) })
HasSetKey(kind) == kind = "consistent_hash"

(***************************************************************************)
(* internal/handler                                                        *)
(***************************************************************************)
AllMethods == {"GET", "HEAD", "OPTIONS", "TRACE", "PUT", "DELETE", "POST", "PATCH",
               "CONNECT"}

\* the methods the modelled clients send
Methods == {"GET", "POST"}

isIdempotentAll(method) == TRUE

isIdempotent(method) ==
    CASE method \in {"GET", "HEAD", "OPTIONS", "TRACE"} -> TRUE
      [] method \in {"PUT", "DELETE"} -> TRUE
      [] OTHER -> FALSE

maxAttemptsForOneMore(method, maxRetries) ==
    IF isIdempotent(method) /\ maxRetries > 0 THEN maxRetries + 2 ELSE 1

maxAttemptsFor(method, maxRetries) ==
    IF isIdempotent(method) /\ maxRetries > 0 THEN maxRetries + 1 ELSE 1

StatusOK == 200
StatusServiceUnavailable == 503

\* a response writer on which nothing was set or written
NewResponseWriter == [code |-> 0, xBackendServer |-> 0]

\* retryableWriter.WriteHeader and .Write on the wrapper of one attempt
NewRetryableWriter == [headerWritten |-> FALSE, statusCode |-> StatusOK]

WriteHeader(rw, code) == [rw EXCEPT !.headerWritten = TRUE, !.statusCode = code]

WriteUntracked(rw) == rw

Write(rw) ==
    IF ~rw.headerWritten
    THEN [rw EXCEPT !.headerWritten = TRUE, !.statusCode = StatusOK]
    ELSE rw

\* the locals of a ServeHTTP call that has not started
IdleRequest ==
    [pc |-> "idle", method |-> "", clientIP |-> <<>>, maxAttempts |-> 0,
     attempt |-> 0, triedBackends |-> {}, nextServer |-> 0,
     wrapped |-> NewRetryableWriter, proxyErr |-> FALSE, w |-> NewResponseWriter,
     selections |-> 0, calls |-> [b \in Backends |-> 0], allowed |-> FALSE,
     result |-> ""]

\* lb.backends, in configuration order
BackendList == [i \in 1..NumBackends |-> i]

\* ServeHTTP returns: what stays is the request, the response and the counts
\* taken of the call; the locals of the call are gone
Return(q, result) ==
    [q EXCEPT !.pc = "done", !.result = result, !.clientIP = <<>>,
              !.triedBackends = {}, !.nextServer = 0, !.allowed = FALSE,
              !.wrapped = NewRetryableWriter, !.proxyErr = FALSE]

\* after the attempt loop: http.Error(w, "Service unavailable", 503)
Exhausted(q) ==
    Return([q EXCEPT !.w.code = IF @ = 0 THEN StatusServiceUnavailable ELSE @],
           "unavailable")

\* the end of one loop iteration: its locals (nextServer, wrapped, proxyErr) go
\* out of scope; then attempt++ and the test attempt <= maxAttempts
NextAttempt(q) ==
    LET n == [q EXCEPT !.attempt = @ + 1, !.nextServer = 0, !.allowed = FALSE,
                       !.wrapped = NewRetryableWriter, !.proxyErr = FALSE]
    IN  IF n.attempt <= n.maxAttempts THEN [n EXCEPT !.pc = "select"] ELSE Exhausted(n)

\* the client identities that can matter: clientIP is read only as the key of a
\* key-taking strategy
ClientIPsRead == IF HasSetKey(cfg.strategy) THEN ClientIPs ELSE {<<>>}

\* ServeHTTP up to the loop: the attempt budget of the request
Receive(r) ==
    /\ req[r].pc = "idle"
    /\ \E m \in Methods, ip \in ClientIPsRead :
          req' = [req EXCEPT ![r] =
                    [@ EXCEPT !.pc = "select", !.method = m, !.clientIP = ip,
                              !.maxAttempts = maxAttemptsFor(m, cfg.maxRetries),
                              !.attempt = 1]]
    /\ UNCHANGED <<cfg, healthy, conns, breakers, upstream, strat, offHandler>>

\* selectBackend lines 66-71: the healthy backends not yet tried in this request
availableBackends(q, h) ==
    Filter(BackendList, [b \in Backends |-> b \notin q.triedBackends /\ h[b]])

\* ServeHTTP lines 115-116 after a selection, then on to the breaker check
Selected(q, b) ==
    [q EXCEPT !.triedBackends = @ \cup {b},
              !.pc = IF cfg.cbEnabled THEN "allow" ELSE "forward"]

\* selectBackend and GetAndReserveServer up to mutex.Unlock: filter and select
\* (the handler's filter and the coordinator's read the health flags at one
\* instant); the increment of the chosen backend's counter follows in
\* GetAndReserveServerReserve
GetAndReserveServer(r) ==
    /\ req[r].pc = "select"
    /\ ~HasSetKey(cfg.strategy)
    /\ LET q == [req[r] EXCEPT !.selections = @ + 1]
           healthyBackends == filterHealthyBackends(availableBackends(q, healthy), healthy)
       IN  IF Len(healthyBackends) = 0
           THEN /\ req' = [req EXCEPT ![r] = Exhausted(q)]
                /\ strat' = strat
           ELSE \E res \in StrategySelect(cfg.strategy, healthyBackends, strat, conns) :
                  /\ strat' = res.strat
                  /\ req' = [req EXCEPT ![r] =
                               IF res.chosen = 0
                               THEN Exhausted(q)
                               ELSE [q EXCEPT !.nextServer = res.chosen, !.pc = "reserve"]]
    /\ UNCHANGED <<cfg, healthy, conns, breakers, upstream, offHandler>>

\* GetAndReserveServer after mutex.Unlock: chosen.IncrementConn()
GetAndReserveServerReserve(r) ==
    /\ req[r].pc = "reserve"
    /\ conns' = [conns EXCEPT ![req[r].nextServer] = IncrementConn(@)]
    /\ req' = [req EXCEPT ![r] = Selected(@, @.nextServer)]
    /\ UNCHANGED <<cfg, healthy, breakers, upstream, strat, offHandler>>

\* selectBackend and GetAndReserveServerWithKey: filter, SetKey, select and
\* increment, all with the mutex held
GetAndReserveServerWithKey(r) ==
    /\ req[r].pc = "select"
    /\ HasSetKey(cfg.strategy)
    /\ LET q == [req[r] EXCEPT !.selections = @ + 1]
           healthyBackends == filterHealthyBackends(availableBackends(q, healthy), healthy)
           keyed == [strat EXCEPT !.hashKey = SetKey(q.clientIP)]
       IN  IF Len(healthyBackends) = 0
           THEN /\ req' = [req EXCEPT ![r] = Exhausted(q)]
                /\ UNCHANGED <<strat, conns>>
           ELSE \E res \in StrategySelect(cfg.strategy, healthyBackends, keyed, conns) :
                  /\ strat' = res.strat
                  /\ IF res.chosen = 0
                     THEN /\ req' = [req EXCEPT ![r] = Exhausted(q)]
                          /\ conns' = conns
                     ELSE /\ conns' = [conns EXCEPT ![res.chosen] = IncrementConn(@)]
                          /\ req' = [req EXCEPT ![r] =
                                       Selected([q EXCEPT !.nextServer = res.chosen],
                                                res.chosen)]
    /\ UNCHANGED <<cfg, healthy, breakers, upstream, offHandler>>

\* ServeHTTP lines 119-127: GetBreaker(backendURL).Allow()
CheckBreaker(r) ==
    /\ req[r].pc = "allow"
    /\ LET q == req[r]
           a == Allow(breakers[q.nextServer])
       IN  /\ breakers' = [breakers EXCEPT ![q.nextServer] = a.cb]
           /\ req' = [req EXCEPT ![r] =
                        IF a.ok
                        THEN [q EXCEPT !.allowed = TRUE, !.pc = "forward"]
                        ELSE NextAttempt(q)]
    /\ UNCHANGED <<cfg, healthy, conns, upstream, strat, offHandler>>

\* ServeHTTP lines 129-159: IncrementConn, the X-Backend-Server header, a new
\* wrapper, and the call of the backend's reverse proxy
Forward(r) ==
    /\ req[r].pc = "forward"
    /\ LET q == req[r]
       IN  /\ conns' = [conns EXCEPT ![q.nextServer] = IncrementConn(@)]
           /\ req' = [req EXCEPT ![r] =
                        [q EXCEPT !.w.xBackendServer = q.nextServer,
                                  !.wrapped = NewRetryableWriter,
                                  !.proxyErr = FALSE,
                                  !.calls[q.nextServer] = @ + 1,
                                  !.pc = "proxy"]]
    /\ UNCHANGED <<cfg, healthy, breakers, upstream, strat, offHandler>>

\* what the reverse proxy does to the wrapper and reports, by how the upstream
\* answers: a response, a transport error before any header, or an error after
\* the response was begun (by WriteHeader, or by a Write without one); the
\* wrapper passes every WriteHeader and Write on to the client's writer (sent)
ProxyOutcomes(rw) ==
    [ok |-> {[wrapped |-> Write(WriteHeader(rw, StatusOK)), sent |-> TRUE, err |-> FALSE]},
     err |-> {[wrapped |-> rw, sent |-> FALSE, err |-> TRUE]},
     partial |-> {[wrapped |-> WriteHeader(rw, StatusOK), sent |-> TRUE, err |-> TRUE],
                  [wrapped |-> Write(rw), sent |-> TRUE, err |-> TRUE]}]

\* the answers an upstream can give to one forward: a sound one always
\* responds, a flaky one answers any way
Answers(kind) == IF kind = "sound" THEN {"ok"} ELSE {"ok", "err", "partial"}

\* ServeHTTP lines 159-162: the proxy returns, then DecrementConn
ProxyReturns(r) ==
    /\ req[r].pc = "proxy"
    /\ LET q == req[r]
       IN  /\ \E a \in Answers(upstream[q.nextServer]) :
               \E o \in ProxyOutcomes(q.wrapped)[a] :
                 req' = [req EXCEPT ![r] =
                           [q EXCEPT !.wrapped = o.wrapped, !.proxyErr = o.err,
                                     !.w.code = IF @ = 0 /\ o.sent THEN StatusOK ELSE @,
                                     !.pc = "record"]]
           /\ conns' = [conns EXCEPT ![q.nextServer] = DecrementConn(@)]
    /\ UNCHANGED <<cfg, healthy, breakers, upstream, strat, offHandler>>

\* ServeHTTP line 196: headers already sent to the client - cannot retry
cannotRetry(rw) == rw.headerWritten

\* the report to the breaker left out once the response was begun
RecordOutcomeUnreportedPartial(r) ==
    /\ req[r].pc = "record"
    /\ LET q == req[r]
           b == q.nextServer
       IN  IF ~q.proxyErr
           THEN /\ breakers' = IF cfg.cbEnabled
                               THEN [breakers EXCEPT ![b] = RecordSuccess(@)]
                               ELSE breakers
                /\ req' = [req EXCEPT ![r] = Return(q, "served")]
           ELSE /\ breakers' = IF cfg.cbEnabled /\ ~cannotRetry(q.wrapped)
                               THEN [breakers EXCEPT ![b] = RecordFailure(@, cfg.threshold)]
                               ELSE breakers
                /\ req' = [req EXCEPT ![r] =
                             IF cannotRetry(q.wrapped)
                             THEN Return(q, "partial")
                             ELSE NextAttempt(q)]
    /\ UNCHANGED <<cfg, healthy, conns, upstream, strat, offHandler>>

\* ServeHTTP lines 164-207: report to the breaker, then return or retry
RecordOutcome(r) ==
    /\ req[r].pc = "record"
    /\ LET q == req[r]
           b == q.nextServer
       IN  IF ~q.proxyErr
           THEN /\ breakers' = IF cfg.cbEnabled
                               THEN [breakers EXCEPT ![b] = RecordSuccess(@)]
                               ELSE breakers
                /\ req' = [req EXCEPT ![r] = Return(q, "served")]
           ELSE /\ breakers' = IF cfg.cbEnabled
                               THEN [breakers EXCEPT ![b] = RecordFailure(@, cfg.threshold)]
                               ELSE breakers
                /\ req' = [req EXCEPT ![r] =
                             IF cannotRetry(q.wrapped)
                             THEN Return(q, "partial")
                             ELSE NextAttempt(q)]
    /\ UNCHANGED <<cfg, healthy, conns, upstream, strat, offHandler>>

\* healthcheck: a probe's SetHealthy that changes the flag
Probe(b) ==
    /\ \E h \in BOOLEAN :
          /\ SetHealthy(healthy[b], h).changed
          /\ healthy' = [healthy EXCEPT ![b] = SetHealthy(@, h).flag]
    /\ UNCHANGED <<cfg, conns, breakers, upstream, strat, req, offHandler>>

\* the environment: time passes
Tick ==
    /\ \E b \in Backends : breakers[b].age < ResetTimeout
    /\ breakers' = [b \in Backends |-> Older(breakers[b])]
    /\ UNCHANGED <<cfg, healthy, conns, upstream, strat, req, offHandler>>

(***************************************************************************)
(* internal/circuitbreaker: the Registry                                   *)
(***************************************************************************)
\* the sum of a count kept per backend
RECURSIVE SumCalls(_, _)
SumCalls(calls, n) == IF n = 0 THEN 0 ELSE calls[n] + SumCalls(calls, n - 1)

Getters == 1..NumGetters

\* NewRegistry: an empty map, the mutex free
NewRegistry ==
    [breakers |-> [u \in Backends |-> 0],
     mutex |-> [readers |-> 0, writer |-> 0],
     made |-> [u \in Backends |-> 0],
     calls |-> 0]

\* the locals of a GetBreaker call that has not started
IdleGetter == [pc |-> "idle", backendURL |-> 0, cb |-> 0, exists |-> FALSE]

\* the number of the breaker NewCircuitBreaker returns next
NextBreakerOf(reg) == 1 + SumCalls(reg.made, NumBackends)

GetBreakerLockedNoRecheck(reg, backendURL) ==
    [reg EXCEPT !.breakers[backendURL] = NextBreakerOf(reg),
                !.made[backendURL] = @ + 1]

\* GetBreaker with the write lock held: the second check, then the insertion
GetBreakerLocked(reg, backendURL) ==
    IF reg.breakers[backendURL] # 0
    THEN reg
    ELSE [reg EXCEPT !.breakers[backendURL] = NextBreakerOf(reg),
                     !.made[backendURL] = @ + 1]

RegistryIdle ==
    /\ registry = NewRegistry
    /\ getters = [g \in Getters |-> IdleGetter]
    /\ handed = {}

(***************************************************************************)
(* internal/healthcheck                                                    *)
(***************************************************************************)
\* what a probe's GET /health comes back with: status 200, another status,
\* or an error of client.Do (refused, timed out, context cancelled)
ProbeAnswers == {"200", "other", "error"}

\* the probe record of a loop that has completed no probe
NoProbe == [isInitial |-> FALSE, before |-> FALSE, set |-> FALSE, changed |-> FALSE,
            log |-> "never", answer |-> "none"]

\* doHealthCheck from the answer on: the flag after it and what it logged
\* doHealthCheck with the flag left alone when client.Do fails
doHealthCheckErrorKeepsFlag(flag, answer, isInitial) ==
    IF answer = "error"
    THEN [isInitial |-> isInitial, before |-> flag, set |-> FALSE,
          changed |-> FALSE, flag |-> flag, answer |-> answer,
          log |-> IF isInitial THEN "warn: down (initial check)" ELSE "none"]
    ELSE LET h == (answer = "200")
             sh == SetHealthy(flag, h)
         IN  [isInitial |-> isInitial, before |-> flag, set |-> h,
              changed |-> sh.changed, flag |-> sh.flag, answer |-> answer,
              log |-> IF sh.changed
                      THEN (IF h THEN "info: back up" ELSE "warn: down")
                      ELSE IF isInitial /\ h THEN "info: up (initial check)"
                      ELSE "none"]

doHealthCheck(flag, answer, isInitial) ==
    IF answer = "error"
    THEN LET sh == SetHealthy(flag, FALSE)
         IN  [isInitial |-> isInitial, before |-> flag, set |-> FALSE,
              changed |-> sh.changed, flag |-> sh.flag, answer |-> answer,
              log |-> IF isInitial THEN "warn: down (initial check)" ELSE "none"]
    ELSE LET h == (answer = "200")
             sh == SetHealthy(flag, h)
         IN  [isInitial |-> isInitial, before |-> flag, set |-> h,
              changed |-> sh.changed, flag |-> sh.flag, answer |-> answer,
              log |-> IF sh.changed
                      THEN (IF h THEN "info: back up" ELSE "warn: down")
                      ELSE IF isInitial /\ h THEN "info: up (initial check)"
                      ELSE "none"]

\* a HealthCheck goroutine that has not yet made its initial probe
NewHealthCheck ==
    [pc |-> "initial", isInitial |-> FALSE, cancelled |-> FALSE, tick |-> FALSE,
     stops |-> 0, last |-> NoProbe]

HealthCheckDoneLoops(h) == [h EXCEPT !.stops = IF @ < 2 THEN @ + 1 ELSE @, !.tick = FALSE]

\* HealthCheck, case <-ctx.Done(): the stop is logged, the function returns
\* and the deferred ticker.Stop() runs
HealthCheckDone(h) == [h EXCEPT !.pc = "stopped", !.stops = @ + 1, !.tick = FALSE]

ProberIdle ==
    /\ ctxDone = FALSE
    /\ hc = [b \in Backends |-> NewHealthCheck]

(***************************************************************************)
(* internal/metrics: the events, the channel and the collector; and the    *)
(* handler's emitEvent                                                     *)
(***************************************************************************)
Emitters == 1..NumEmitters

EventRequestReceived == "request_received"
EventBackendSelected == "backend_selected"
EventResponseCompleted == "response_completed"

\* NewMetrics: nothing counted
NewMetrics == [requests |-> 0, selections |-> 0, responses |-> 0]

\* processEvent without the EventBackendSelected case
processEventSelectionUncounted(m, event) ==
    CASE event.type = EventRequestReceived -> [m EXCEPT !.requests = @ + 1]
      [] event.type = EventResponseCompleted -> [m EXCEPT !.responses = @ + 1]
      [] OTHER -> m

\* Collector.processEvent on the store
processEvent(m, event) ==
    CASE event.type = EventRequestReceived -> [m EXCEPT !.requests = @ + 1]
      [] event.type = EventBackendSelected -> [m EXCEPT !.selections = @ + 1]
      [] event.type = EventResponseCompleted -> [m EXCEPT !.responses = @ + 1]
      [] OTHER -> m

emitEventBlocking(ch, event) ==
    IF Len(ch) < BufferSize
    THEN [ch |-> Append(ch, event), returns |-> TRUE, dropped |-> FALSE]
    ELSE [ch |-> ch, returns |-> FALSE, dropped |-> FALSE]

\* emitEvent: the send when the channel has room, the default case when not
emitEvent(ch, event) ==
    IF Len(ch) < BufferSize
    THEN [ch |-> Append(ch, event), returns |-> TRUE, dropped |-> FALSE]
    ELSE [ch |-> ch, returns |-> TRUE, dropped |-> TRUE]

drainReturnsAtOnce(ch) == TRUE

\* Collector.drain takes its default case, and returns
drainReturns(ch) == Len(ch) = 0

\* a handler attempt that has selected its backend and emitted nothing yet
NewEmitter == [pc |-> "received", answer |-> "", dropped |-> 0, outcome |-> ""]

CollectorIdle ==
    /\ eventCh = <<>>
    /\ store = NewMetrics
    /\ collector = [pc |-> "select", given |-> 0, processed |-> 0]
    /\ emitters = [e \in Emitters |-> NewEmitter]

(***************************************************************************)
(* internal/strategy as a component of its own: one strategy object of any *)
(* configured kind, called with candidate lists that differ from call to   *)
(* call                                                                    *)
(***************************************************************************)
Callers == 1..NumCallers

\* the strategy names createStrategy accepts
AllStrategyKinds == StrategyKinds \cup {"least-response", "weighted-round-robin"}

\* the candidate lists: the backends in any order, none twice
CandidateLists ==
    {l \in UNION {[1..n -> Backends] : n \in 0..NumBackends} :
       \A i, j \in 1..Len(l) : i # j => l[i] # l[j]}

Members(list) == {list[i] : i \in 1..Len(list)}

\* buildRing on each candidate list (computed once)
BuiltRings == {[list |-> l, ring |-> buildRing(l, VirtualNodes)] : l \in CandidateLists}

Rings(l) == (CHOOSE built \in BuiltRings : built.list = l).ring

\* consistentHashStrategy.Rebuild: a ring built from the list given, stored
Rebuild(backends, st) ==
    [st EXCEPT !.ring = IF backends \in CandidateLists THEN Rings(backends)
                        ELSE buildRing(backends, VirtualNodes)]

\* leastResponseStrategy.SelectBackend; EWMATime() = 0 reads as no sample
RECURSIVE LeastResponseScan(_, _, _, _, _, _)
LeastResponseScan(backends, ewma, c, i, chosen, best) ==
    IF i > Len(backends) THEN chosen
    ELSE LET b == backends[i]
             score == ewma[b] * (c[b] + 1)
         IN  IF ewma[b] = 0 THEN b
             ELSE IF chosen = 0 \/ score < best
                  THEN LeastResponseScan(backends, ewma, c, i + 1, b, score)
                  ELSE LeastResponseScan(backends, ewma, c, i + 1, chosen, best)

LeastResponseSelect(backends, ewma, c) ==
    IF Len(backends) = 0 THEN 0 ELSE LeastResponseScan(backends, ewma, c, 1, 0, 0)

\* cleanup that deletes nothing
cleanupKeepsStale(current, backends) == current

\* weightedRoundRobinStrategy.cleanup: the entries of backends in the list
cleanup(current, backends) ==
    [b \in DOMAIN current \cap Members(backends) |-> current[b]]

\* the loop of weightedRoundRobinStrategy.SelectBackend
RECURSIVE WeightedScan(_, _, _, _, _, _)
WeightedScan(backends, w, i, current, totalWeight, chosen) ==
    IF i > Len(backends)
    THEN [current |-> current, totalWeight |-> totalWeight, chosen |-> chosen]
    ELSE LET b == backends[i]
             added == (IF b \in DOMAIN current THEN current[b] ELSE 0) + w[b]
             current2 == [x \in DOMAIN current \cup {b} |->
                            IF x = b THEN added ELSE current[x]]
         IN  IF w[b] <= 0
             THEN WeightedScan(backends, w, i + 1, current, totalWeight, chosen)
             ELSE WeightedScan(backends, w, i + 1, current2, totalWeight + w[b],
                               IF chosen = 0 \/ current2[b] > current2[chosen]
                               THEN b ELSE chosen)

\* weightedRoundRobinStrategy.SelectBackend without the final subtraction
WeightedRoundRobinSelectKeepsTotal(backends, w, current) ==
    IF Len(backends) = 0 THEN [chosen |-> 0, current |-> current]
    ELSE LET r == WeightedScan(backends, w, 1, cleanup(current, backends), 0, 0)
         IN  IF r.chosen = 0 \/ r.totalWeight = 0
             THEN [chosen |-> 0, current |-> r.current]
             ELSE [chosen |-> r.chosen, current |-> r.current]

\* weightedRoundRobinStrategy.SelectBackend reducing the chosen backend by its
\* own weight
WeightedRoundRobinSelectReducesByOwn(backends, w, current) ==
    IF Len(backends) = 0 THEN [chosen |-> 0, current |-> current]
    ELSE LET r == WeightedScan(backends, w, 1, cleanup(current, backends), 0, 0)
         IN  IF r.chosen = 0 \/ r.totalWeight = 0
             THEN [chosen |-> 0, current |-> r.current]
             ELSE [chosen |-> r.chosen,
                   current |-> [r.current EXCEPT ![r.chosen] = @ - w[r.chosen]]]

\* weightedRoundRobinStrategy.SelectBackend: the backend (0 for nil) and the
\* running totals after the call
WeightedRoundRobinSelect(backends, w, current) ==
    IF Len(backends) = 0 THEN [chosen |-> 0, current |-> current]
    ELSE LET r == WeightedScan(backends, w, 1, cleanup(current, backends), 0, 0)
         IN  IF r.chosen = 0 \/ r.totalWeight = 0
             THEN [chosen |-> 0, current |-> r.current]
             ELSE [chosen |-> r.chosen,
                   current |-> [r.current EXCEPT ![r.chosen] = @ - r.totalWeight]]

\* New...Strategy: a strategy object of the given kind, no call made
NewSelector(kind) ==
    [kind |-> kind, current |-> 0, hashKey |-> NewStrategy.hashKey,
     ring |-> NewStrategy.ring, totals |-> [b \in {} |-> 0]]

\* the EWMA fields of a Backend: as constructed, and after the first
\* RecordResponse(duration)
NewEWMA == [hasEWMA |-> FALSE, ewmaResponseTime |-> 0]

RecordFirstResponse(duration) == [hasEWMA |-> TRUE, ewmaResponseTime |-> duration]

EWMAStates == {NewEWMA} \cup {RecordFirstResponse(d) : d \in 0..MaxEWMA}

\* Backend.EWMATime
EWMATime(e) == IF ~e.hasEWMA THEN 0 ELSE e.ewmaResponseTime

\* the backends' fields the last least-response selection read: none yet
NoInput == [ewma |-> [b \in Backends |-> NewEWMA], conns |-> [b \in Backends |-> 0]]

IdleCaller == [pc |-> "idle", backends |-> <<>>, n |-> 0]

StrategyIdle ==
    /\ selector = NewSelector("round-robin")
    /\ weight = [b \in Backends |-> 1]
    /\ callers = [c \in Callers |-> IdleCaller]
    /\ selected = <<>>
    /\ lastInput = NoInput

(***************************************************************************)
(* internal/loadbalancer as a component of its own: the coordinator and    *)
(* its strategy, called by concurrent callers with any list of backends    *)
(***************************************************************************)
\* Strategy.SelectBackend of any configured kind: the set of possible results
\* [chosen, strat]
SelectBackend(kind, candidates, st, c, w, ewma) ==
    CASE kind \in StrategyKinds -> StrategySelect(kind, candidates, st, c)
      [] kind = "least-response" ->
            {[chosen |-> LeastResponseSelect(candidates, ewma, c), strat |-> st]}
      [] kind = "weighted-round-robin" ->
            LET r == WeightedRoundRobinSelect(candidates, w, st.totals)
            IN  {[chosen |-> r.chosen, strat |-> [st EXCEPT !.totals = r.current]]}

ErrNoHealthy == "no healthy backends"
ErrStrategyNil == "strategy returned nil backend"

\* the end of GetAndReserveServer[WithKey] that skips the reservation
ReturnChosenUnreserved(chosen, c) ==
    IF chosen = 0
    THEN [backend |-> 0, err |-> ErrStrategyNil, conns |-> c]
    ELSE [backend |-> chosen, err |-> "", conns |-> c]

\* the end of GetAndReserveServer[WithKey]: the nil check, IncrementConn and
\* the values returned, with the counters after the call
ReturnChosen(chosen, c) ==
    IF chosen = 0
    THEN [backend |-> 0, err |-> ErrStrategyNil, conns |-> c]
    ELSE [backend |-> chosen, err |-> "", conns |-> [c EXCEPT ![chosen] = IncrementConn(@)]]

\* a coordinator call that has not started
IdleCall == [pc |-> "idle", chosen |-> 0]

\* what a coordinator call returned, and what it met: fn the function,
\* backend and err the values returned, noHealthy whether the filtered list
\* was empty, strategyNil whether the strategy returned nil
NoReturn ==
    [fn |-> "", backend |-> 0, err |-> "", noHealthy |-> FALSE, strategyNil |-> FALSE]

CoordinatorIdle ==
    /\ pool = [healthy |-> [b \in Backends |-> New.isHealthy],
               conns |-> [b \in Backends |-> New.activeConnections]]
    /\ lbCalls = [c \in Callers |-> IdleCall]
    /\ lbLast = NoReturn
    /\ lbCount = 0

(***************************************************************************)
(* internal/metrics: the Metrics maps.  A Go map is a function on the keys *)
(* it holds; reading an absent key yields the zero value.  The per-backend *)
(* status-code map is an object of its own, made once by RecordResponse    *)
(* and never replaced: a reference to it is the backend it belongs to.     *)
(* SampleWindow stands for the 1000 of RecordResponse.                     *)
(***************************************************************************)
Durations == 1..MaxDuration

\* the status codes a wrapped writer reports
ResponseCodes == {StatusOK, StatusServiceUnavailable}

EmptyMap == [k \in {} |-> 0]

\* m[k], zero when k is absent
Get(m, k, zero) == IF k \in DOMAIN m THEN m[k] ELSE zero

\* m[k] = v
Put(m, k, v) == [x \in DOMAIN m \cup {k} |-> IF x = k THEN v ELSE m[x]]

\* NewMetrics, map by map
NewMetricsMaps ==
    [requests |-> EmptyMap, selections |-> EmptyMap, responseTimes |-> EmptyMap,
     statusCodes |-> EmptyMap, healthStatus |-> EmptyMap]

IncrementRequests(m, backend) ==
    [m EXCEPT !.requests = Put(@, backend, Get(@, backend, 0) + 1)]

RecordBackendSelection(m, backend) ==
    [m EXCEPT !.selections = Put(@, backend, Get(@, backend, 0) + 1)]

\* RecordResponse keeping the oldest samples instead of the newest
RecordResponseDropsNewest(m, backend, duration, statusCode) ==
    LET appended == Append(Get(m.responseTimes, backend, <<>>), duration)
        kept == IF Len(appended) > SampleWindow
                THEN SubSeq(appended, 1, SampleWindow)
                ELSE appended
        codes == Get(m.statusCodes, backend, EmptyMap)
    IN  [m EXCEPT !.responseTimes = Put(@, backend, kept),
                  !.statusCodes = Put(@, backend,
                                      Put(codes, statusCode, Get(codes, statusCode, 0) + 1))]

RecordResponse(m, backend, duration, statusCode) ==
    LET appended == Append(Get(m.responseTimes, backend, <<>>), duration)
        kept == IF Len(appended) > SampleWindow THEN Tail(appended) ELSE appended
        codes == Get(m.statusCodes, backend, EmptyMap)
    IN  [m EXCEPT !.responseTimes = Put(@, backend, kept),
                  !.statusCodes = Put(@, backend,
                                      Put(codes, statusCode, Get(codes, statusCode, 0) + 1))]

UpdateHealthStatus(m, backend, h) ==
    [m EXCEPT !.healthStatus = Put(@, backend, h)]

\* sort.Slice(sorted, <) on durations
RECURSIVE InsertDuration(_, _)
InsertDuration(sorted, d) ==
    IF sorted = <<>> THEN <<d>>
    ELSE IF d < Head(sorted) THEN <<d>> \o sorted
    ELSE <<Head(sorted)>> \o InsertDuration(Tail(sorted), d)

RECURSIVE SortDurations(_)
SortDurations(ds) ==
    IF ds = <<>> THEN <<>> ELSE InsertDuration(SortDurations(Tail(ds)), Head(ds))

RECURSIVE SumDurations(_)
SumDurations(ds) == IF ds = <<>> THEN 0 ELSE Head(ds) + SumDurations(Tail(ds))

average(durations) ==
    IF Len(durations) = 0 THEN 0 ELSE SumDurations(durations) \div Len(durations)

\* percentile(sorted, p) with p = percent / 100
percentile(sorted, percent) ==
    IF Len(sorted) = 0 THEN 0
    ELSE LET index == (Len(sorted) * percent) \div 100
         IN  sorted[(IF index >= Len(sorted) THEN Len(sorted) - 1 ELSE index) + 1]

\* the BackendMetrics Snapshot builds for one backend; StatusCodes is the
\* map m.statusCodes[backend] itself: nil (0) or a reference to the backend's map
BackendMetricsOf(m, backend) ==
    LET durations == Get(m.responseTimes, backend, <<>>)
        sorted == SortDurations(durations)
        some == Len(durations) > 0
    IN  [Requests |-> Get(m.requests, backend, 0),
         Selections |-> Get(m.selections, backend, 0),
         Healthy |-> Get(m.healthStatus, backend, FALSE),
         AvgResponse |-> IF some THEN average(sorted) ELSE 0,
         P50Response |-> IF some THEN percentile(sorted, 50) ELSE 0,
         P95Response |-> IF some THEN percentile(sorted, 95) ELSE 0,
         P99Response |-> IF some THEN percentile(sorted, 99) ELSE 0,
         StatusCodes |-> IF backend \in DOMAIN m.statusCodes THEN backend ELSE 0]

RECURSIVE SumRequests(_, _)
SumRequests(m, bs) ==
    IF bs = {} THEN 0
    ELSE LET b == CHOOSE x \in bs : TRUE
         IN  Get(m.requests, b, 0) + SumRequests(m, bs \ {b})

\* Metrics.Snapshot
Snapshot(m) ==
    LET allBackends == DOMAIN m.requests \cup DOMAIN m.selections
                         \cup DOMAIN m.responseTimes \cup DOMAIN m.healthStatus
    IN  [taken |-> TRUE,
         TotalRequests |-> SumRequests(m, allBackends),
         Backends |-> [b \in allBackends |-> BackendMetricsOf(m, b)]]

\* no Snapshot returned yet
NoSnapshot == [taken |-> FALSE, TotalRequests |-> 0, Backends |-> EmptyMap]

\* what a reader of the snapshot sees: every StatusCodes reference followed
\* to the map it points to, as that map is now
Read(sn, m) ==
    [sn EXCEPT !.Backends =
       [b \in DOMAIN sn.Backends |->
          [sn.Backends[b] EXCEPT !.StatusCodes =
             IF @ = 0 THEN EmptyMap ELSE m.statusCodes[@]]]]

MetricsIdle ==
    /\ mx = NewMetricsMaps
    /\ snap = NoSnapshot
    /\ snapSeen = Read(NoSnapshot, NewMetricsMaps)
    /\ recorded = [b \in Backends |-> <<>>]
    /\ mxOps = 0

Configs ==
    {c \in [strategy : StrategyKinds, maxRetries : 0..MaxRetriesCfg,
            cbEnabled : BOOLEAN, threshold : {0, FailureThreshold}] :
       c.cbEnabled <=> c.threshold = FailureThreshold}

\* the stand-alone breaker as constructed, no call made
BreakerNew ==
    /\ cb = NewCircuitBreaker
    /\ lastOp = "New"
    /\ lastAllow = TRUE
    /\ prevState = StateClosed
    /\ streak = 0
    /\ succeeded = FALSE
    /\ ops = 0

Init ==
    /\ cfg \in Configs
    /\ healthy = [b \in Backends |-> New.isHealthy]
    /\ conns = [b \in Backends |-> New.activeConnections]
    /\ breakers = [b \in Backends |-> NewCircuitBreaker]
    /\ upstream \in [Backends -> {"sound", "flaky"}]
    /\ strat = NewStrategy
    /\ req = [r \in Requests |-> IdleRequest]
    /\ cbThreshold = FailureThreshold
    /\ BreakerNew
    /\ RegistryIdle
    /\ ProberIdle
    /\ CollectorIdle
    /\ StrategyIdle
    /\ CoordinatorIdle
    /\ MetricsIdle

Next ==
    \/ \E r \in Requests : Receive(r)
    \/ \E r \in Requests : GetAndReserveServer(r)
    \/ \E r \in Requests : GetAndReserveServerReserve(r)
    \/ \E r \in Requests : GetAndReserveServerWithKey(r)
    \/ \E r \in Requests : CheckBreaker(r)
    \/ \E r \in Requests : Forward(r)
    \/ \E r \in Requests : ProxyReturns(r)
    \/ \E r \in Requests : RecordOutcome(r)
    \/ \E b \in Backends : Probe(b)
    \/ Tick

Spec == Init /\ [][Next]_vars

(***************************************************************************)
(* One CircuitBreaker under arbitrary calls of Allow, RecordSuccess and    *)
(* RecordFailure, with time passing in between.                            *)
(***************************************************************************)
CallAllow ==
    /\ ops < MaxOps
    /\ cb' = Allow(cb).cb
    /\ lastAllow' = Allow(cb).ok
    /\ lastOp' = "Allow"
    /\ prevState' = cb.state
    /\ ops' = ops + 1
    /\ UNCHANGED <<cbThreshold, streak, succeeded, offBreaker>>

CallRecordSuccess ==
    /\ ops < MaxOps
    /\ cb' = RecordSuccess(cb)
    /\ lastOp' = "RecordSuccess"
    /\ prevState' = cb.state
    /\ streak' = 0
    /\ succeeded' = TRUE
    /\ ops' = ops + 1
    /\ UNCHANGED <<cbThreshold, lastAllow, offBreaker>>

CallRecordFailure ==
    /\ ops < MaxOps
    /\ cb' = RecordFailure(cb, cbThreshold)
    /\ lastOp' = "RecordFailure"
    /\ prevState' = cb.state
    /\ streak' = streak + 1
    /\ ops' = ops + 1
    /\ UNCHANGED <<cbThreshold, lastAllow, succeeded, offBreaker>>

TimePasses ==
    /\ cb.age < ResetTimeout
    /\ cb' = Older(cb)
    /\ UNCHANGED <<cbThreshold, lastOp, lastAllow, prevState, streak, succeeded, ops,
                   offBreaker>>

\* the handler wired and at rest: no request was received
HandlerIdle ==
    /\ cfg = [strategy |-> "round-robin", maxRetries |-> 0, cbEnabled |-> TRUE,
              threshold |-> FailureThreshold]
    /\ healthy = [b \in Backends |-> New.isHealthy]
    /\ conns = [b \in Backends |-> New.activeConnections]
    /\ breakers = [b \in Backends |-> NewCircuitBreaker]
    /\ upstream = [b \in Backends |-> "sound"]
    /\ strat = NewStrategy
    /\ req = [r \in Requests |-> IdleRequest]

InitBreaker ==
    /\ HandlerIdle
    /\ cbThreshold \in 1..MaxThreshold
    /\ BreakerNew
    /\ RegistryIdle
    /\ ProberIdle
    /\ CollectorIdle
    /\ StrategyIdle
    /\ CoordinatorIdle
    /\ MetricsIdle

NextBreaker ==
    \/ CallAllow
    \/ CallRecordSuccess
    \/ CallRecordFailure
    \/ TimePasses

SpecBreaker == InitBreaker /\ [][NextBreaker]_vars

(***************************************************************************)
(* One Registry under concurrent GetBreaker calls.                         *)
(***************************************************************************)
\* GetBreaker is called; r.mutex.RLock()
GetBreakerRLock(g) ==
    /\ getters[g].pc = "idle"
    /\ registry.calls < MaxGets
    /\ registry.mutex.writer = 0
    /\ \E u \in Backends :
          getters' = [getters EXCEPT ![g] = [IdleGetter EXCEPT !.pc = "rlocked",
                                                               !.backendURL = u]]
    /\ registry' = [registry EXCEPT !.mutex.readers = @ + 1, !.calls = @ + 1]
    /\ UNCHANGED <<handed, offRegistry>>

\* cb, exists := r.breakers[backendURL]; r.mutex.RUnlock()
GetBreakerRead(g) ==
    /\ getters[g].pc = "rlocked"
    /\ LET u == getters[g].backendURL
       IN  getters' = [getters EXCEPT ![g] = [@ EXCEPT !.cb = registry.breakers[u],
                                                      !.exists = registry.breakers[u] # 0,
                                                      !.pc = "read"]]
    /\ registry' = [registry EXCEPT !.mutex.readers = @ - 1]
    /\ UNCHANGED <<handed, offRegistry>>

\* if exists { return cb }
GetBreakerHit(g) ==
    /\ getters[g].pc = "read"
    /\ getters[g].exists
    /\ handed' = handed \cup {<<getters[g].backendURL, getters[g].cb>>}
    /\ getters' = [getters EXCEPT ![g] = IdleGetter]
    /\ UNCHANGED <<registry, offRegistry>>

\* r.mutex.Lock() after a miss
GetBreakerLock(g) ==
    /\ getters[g].pc = "read"
    /\ ~getters[g].exists
    /\ registry.mutex.writer = 0
    /\ registry.mutex.readers = 0
    /\ registry' = [registry EXCEPT !.mutex.writer = g]
    /\ getters' = [getters EXCEPT ![g].pc = "locked"]
    /\ UNCHANGED <<handed, offRegistry>>

\* the second check and the insertion, the return and the deferred Unlock
GetBreakerInsert(g) ==
    /\ getters[g].pc = "locked"
    /\ LET u == getters[g].backendURL
           reg == GetBreakerLocked(registry, u)
       IN  /\ registry' = [reg EXCEPT !.mutex.writer = 0]
           /\ handed' = handed \cup {<<u, reg.breakers[u]>>}
    /\ getters' = [getters EXCEPT ![g] = IdleGetter]
    /\ UNCHANGED offRegistry

InitRegistry ==
    /\ HandlerIdle
    /\ cbThreshold = FailureThreshold
    /\ BreakerNew
    /\ RegistryIdle
    /\ ProberIdle
    /\ CollectorIdle
    /\ StrategyIdle
    /\ CoordinatorIdle
    /\ MetricsIdle

NextRegistry ==
    \/ \E g \in Getters : GetBreakerRLock(g)
    \/ \E g \in Getters : GetBreakerRead(g)
    \/ \E g \in Getters : GetBreakerHit(g)
    \/ \E g \in Getters : GetBreakerLock(g)
    \/ \E g \in Getters : GetBreakerInsert(g)

SpecRegistry == InitRegistry /\ [][NextRegistry]_vars

(***************************************************************************)
(* The health checks: one HealthCheck goroutine per backend under a root   *)
(* context that may be cancelled at any time.                              *)
(***************************************************************************)
\* HealthCheck line 24: the initial doHealthCheck is called
InitialProbe(b) ==
    /\ hc[b].pc = "initial"
    /\ hc' = [hc EXCEPT ![b] = [@ EXCEPT !.pc = "probing", !.isInitial = TRUE,
                                        !.cancelled = ctxDone]]
    /\ UNCHANGED <<ctxDone, healthy, offProber>>

\* the ticker of a running loop delivers a tick (its channel holds one)
TickerFires(b) ==
    /\ hc[b].pc \in {"select", "probing"}
    /\ ~hc[b].isInitial \/ hc[b].pc = "select"
    /\ ~hc[b].tick
    /\ hc' = [hc EXCEPT ![b].tick = TRUE]
    /\ UNCHANGED <<ctxDone, healthy, offProber>>

\* HealthCheck, case <-ticker.C: a periodic doHealthCheck is called
TickProbe(b) ==
    /\ hc[b].pc = "select"
    /\ hc[b].tick
    /\ hc' = [hc EXCEPT ![b] = [@ EXCEPT !.pc = "probing", !.isInitial = FALSE,
                                        !.tick = FALSE, !.cancelled = ctxDone]]
    /\ UNCHANGED <<ctxDone, healthy, offProber>>

\* doHealthCheck gets its answer (an error when the context was cancelled
\* before the request was sent) and returns
ProbeCompletes(b) ==
    /\ hc[b].pc = "probing"
    /\ \E answer \in (IF hc[b].cancelled THEN {"error"} ELSE ProbeAnswers) :
          LET d == doHealthCheck(healthy[b], answer, hc[b].isInitial)
          IN  /\ healthy' = [healthy EXCEPT ![b] = d.flag]
              /\ hc' = [hc EXCEPT ![b] =
                          [@ EXCEPT !.pc = "select",
                                    !.last = [isInitial |-> d.isInitial,
                                              before |-> d.before, set |-> d.set,
                                              changed |-> d.changed, log |-> d.log,
                                              answer |-> d.answer]]]
    /\ UNCHANGED <<ctxDone, offProber>>

\* HealthCheck, case <-ctx.Done()
HealthCheckStops(b) ==
    /\ hc[b].pc = "select"
    /\ ctxDone
    /\ hc' = [hc EXCEPT ![b] = HealthCheckDone(@)]
    /\ UNCHANGED <<ctxDone, healthy, offProber>>

\* the root context is cancelled
Cancel ==
    /\ ~ctxDone
    /\ ctxDone' = TRUE
    /\ UNCHANGED <<hc, healthy, offProber>>

InitProber ==
    /\ HandlerIdle
    /\ cbThreshold = FailureThreshold
    /\ BreakerNew
    /\ RegistryIdle
    /\ ProberIdle
    /\ CollectorIdle
    /\ StrategyIdle
    /\ CoordinatorIdle
    /\ MetricsIdle

NextProber ==
    \/ \E b \in Backends : InitialProbe(b)
    \/ \E b \in Backends : TickerFires(b)
    \/ \E b \in Backends : TickProbe(b)
    \/ \E b \in Backends : ProbeCompletes(b)
    \/ \E b \in Backends : HealthCheckStops(b)
    \/ Cancel

\* every goroutine runs on, every probe comes back (client.Timeout), and a
\* select whose ctx.Done() case is ready again and again takes it in the end
\* (select chooses at random among its ready cases)
FairProber ==
    \A b \in Backends :
       /\ WF_vars(InitialProbe(b))
       /\ WF_vars(ProbeCompletes(b))
       /\ SF_vars(HealthCheckStops(b))

SpecProber == InitProber /\ [][NextProber]_vars /\ FairProber

\* a ticker that is not stopped keeps ticking, and a loop whose only ready
\* case is <-ticker.C takes it
FairTicker ==
    \A b \in Backends :
       /\ WF_vars(TickerFires(b))
       /\ WF_vars(TickProbe(b))

SpecProberTicking == InitProber /\ [][NextProber]_vars /\ FairProber /\ FairTicker

(***************************************************************************)
(* The metrics path: handler attempts emit into the channel, Collector.run *)
(* consumes it until the context is cancelled, then drains it.             *)
(***************************************************************************)
\* one emitEvent call of attempt e, then on to the attempt's next step
Emit(e, type, next, outcome) ==
    LET sent == emitEvent(eventCh, [type |-> type, early |-> ~ctxDone])
    IN  /\ sent.returns
        /\ eventCh' = sent.ch
        /\ collector' = [collector EXCEPT
                            !.given = IF ~sent.dropped /\ ~ctxDone THEN @ + 1 ELSE @]
        /\ emitters' = [emitters EXCEPT ![e] =
                           [@ EXCEPT !.pc = next, !.outcome = outcome,
                                     !.dropped = IF sent.dropped THEN @ + 1 ELSE @]]
        /\ UNCHANGED <<store, ctxDone, offCollector>>

\* ServeHTTP lines 130-134
EmitRequestReceived(e) ==
    /\ emitters[e].pc = "received"
    /\ Emit(e, EventRequestReceived, "selected", "")

\* ServeHTTP lines 135-139
EmitBackendSelected(e) ==
    /\ emitters[e].pc = "selected"
    /\ Emit(e, EventBackendSelected, "proxy", "")

\* ServeHTTP lines 159-165: the proxy call and its outcome
EmitterProxy(e) ==
    /\ emitters[e].pc = "proxy"
    /\ \E a \in {"ok", "err"} :
          emitters' = [emitters EXCEPT ![e] =
                          IF a = "ok"
                          THEN [@ EXCEPT !.answer = a, !.pc = "completed"]
                          ELSE [@ EXCEPT !.answer = a, !.pc = "done",
                                         !.outcome = "failed"]]
    /\ UNCHANGED <<eventCh, store, collector, ctxDone, offCollector>>

\* ServeHTTP lines 171-180
EmitResponseCompleted(e) ==
    /\ emitters[e].pc = "completed"
    /\ Emit(e, EventResponseCompleted, "done", "served")

\* Collector.run, case event := <-c.eventCh
CollectorReceives ==
    /\ collector.pc = "select"
    /\ Len(eventCh) > 0
    /\ store' = processEvent(store, Head(eventCh))
    /\ eventCh' = Tail(eventCh)
    /\ collector' = [collector EXCEPT
                        !.processed = IF Head(eventCh).early THEN @ + 1 ELSE @]
    /\ UNCHANGED <<emitters, ctxDone, offCollector>>

\* Collector.run, case <-ctx.Done(): drain is called
CollectorObservesDone ==
    /\ collector.pc = "select"
    /\ ctxDone
    /\ collector' = [collector EXCEPT !.pc = "drain"]
    /\ UNCHANGED <<eventCh, store, emitters, ctxDone, offCollector>>

\* Collector.drain, case event := <-c.eventCh
CollectorDrains ==
    /\ collector.pc = "drain"
    /\ Len(eventCh) > 0
    /\ ~drainReturns(eventCh)
    /\ store' = processEvent(store, Head(eventCh))
    /\ eventCh' = Tail(eventCh)
    /\ collector' = [collector EXCEPT
                        !.processed = IF Head(eventCh).early THEN @ + 1 ELSE @]
    /\ UNCHANGED <<emitters, ctxDone, offCollector>>

\* Collector.drain, default: drain and run return
CollectorExits ==
    /\ collector.pc = "drain"
    /\ drainReturns(eventCh)
    /\ collector' = [collector EXCEPT !.pc = "exited"]
    /\ UNCHANGED <<eventCh, store, emitters, ctxDone, offCollector>>

InitCollector ==
    /\ HandlerIdle
    /\ cbThreshold = FailureThreshold
    /\ BreakerNew
    /\ RegistryIdle
    /\ ProberIdle
    /\ CollectorIdle
    /\ StrategyIdle
    /\ CoordinatorIdle
    /\ MetricsIdle

NextCollector ==
    \/ \E e \in Emitters : EmitRequestReceived(e)
    \/ \E e \in Emitters : EmitBackendSelected(e)
    \/ \E e \in Emitters : EmitterProxy(e)
    \/ \E e \in Emitters : EmitResponseCompleted(e)
    \/ CollectorReceives
    \/ CollectorObservesDone
    \/ CollectorDrains
    \/ CollectorExits
    \/ Cancel

SpecCollector == InitCollector /\ [][NextCollector]_vars

(***************************************************************************)
(* The strategy specification: SelectBackend (and SetKey) called on one    *)
(* strategy object.  selected records every call that returned: its         *)
(* position k among the calls (round-robin: the counter value it took),    *)
(* the list it was given, the backend it returned (0 for nil) and the      *)
(* hash key the strategy held (consistent_hash: the last SetKey).          *)
(***************************************************************************)
Started == Len(selected) + Cardinality({c \in Callers : callers[c].pc # "idle"})

Returned(k, backends, chosen) ==
    Append(selected, [k |-> k, backends |-> backends, chosen |-> chosen,
                      hashKey |-> selector.hashKey])

\* roundRobinStrategy.SelectBackend on an empty list
RoundRobinEmpty(c) ==
    /\ selector.kind = "round-robin"
    /\ callers[c].pc = "idle"
    /\ Started < MaxSelections
    /\ selected' = Returned(0, <<>>, 0)
    /\ UNCHANGED <<selector, weight, callers, lastInput, offStrategy>>

\* n := atomic.AddUint64(&rb.current, 1)
RoundRobinAdd(c, backends) ==
    /\ selector.kind = "round-robin"
    /\ callers[c].pc = "idle"
    /\ Started < MaxSelections
    /\ Len(backends) # 0
    /\ LET n == RoundRobinSelect(backends, selector.current).current
       IN  /\ selector' = [selector EXCEPT !.current = n]
           /\ callers' = [callers EXCEPT ![c] = [pc |-> "added", backends |-> backends,
                                                 n |-> n]]
    /\ UNCHANGED <<weight, selected, lastInput, offStrategy>>

\* index := (n - 1) % len(backends); return backends[index]
RoundRobinReturn(c) ==
    /\ callers[c].pc = "added"
    /\ selected' = Returned(callers[c].n, callers[c].backends,
                            RoundRobinSelect(callers[c].backends, callers[c].n - 1).chosen)
    /\ callers' = [callers EXCEPT ![c] = IdleCaller]
    /\ UNCHANGED <<selector, weight, lastInput, offStrategy>>

RandomSelectBackend(backends) ==
    /\ selector.kind = "random"
    /\ Started < MaxSelections
    /\ \E chosen \in IF Len(backends) = 0 THEN {0} ELSE Members(backends) :
         selected' = Returned(Len(selected) + 1, backends, chosen)
    /\ UNCHANGED <<selector, weight, callers, lastInput, offStrategy>>

LeastConnSelectBackend(backends, c) ==
    /\ selector.kind = "least-conn"
    /\ Started < MaxSelections
    /\ selected' = Returned(Len(selected) + 1, backends, LeastConnSelect(backends, c))
    /\ UNCHANGED <<selector, weight, callers, lastInput, offStrategy>>

LeastResponseSelectBackend(backends, ewma, c) ==
    /\ selector.kind = "least-response"
    /\ Started < MaxLeastResponse
    /\ selected' = Returned(Len(selected) + 1, backends,
                            LeastResponseSelect(backends, [b \in Backends |-> EWMATime(ewma[b])], c))
    /\ lastInput' = [ewma |-> ewma, conns |-> c]
    /\ UNCHANGED <<selector, weight, callers, offStrategy>>

ConsistentHashSetKey(key) ==
    /\ selector.kind = "consistent_hash"
    /\ Started < MaxSelections
    /\ selector.hashKey # SetKey(key)
    /\ selector' = [selector EXCEPT !.hashKey = SetKey(key)]
    /\ UNCHANGED <<weight, callers, selected, lastInput, offStrategy>>

ConsistentHashSelectBackend(backends) ==
    /\ selector.kind = "consistent_hash"
    /\ Started < MaxSelections
    /\ LET r == ConsistentHashSelect(backends, selector)
       IN  /\ selector' = [selector EXCEPT !.ring = r.ring]
           /\ selected' = Returned(Len(selected) + 1, backends, r.chosen)
    /\ UNCHANGED <<weight, callers, lastInput, offStrategy>>

WeightedRoundRobinSelectBackend(backends) ==
    /\ selector.kind = "weighted-round-robin"
    /\ Started < MaxSelections
    /\ LET r == WeightedRoundRobinSelect(backends, weight, selector.totals)
       IN  /\ selector' = [selector EXCEPT !.totals = r.current]
           /\ selected' = Returned(Len(selected) + 1, backends, r.chosen)
    /\ UNCHANGED <<weight, callers, lastInput, offStrategy>>

\* the recorded calls that are Rebuild calls
Rebuilds == {i \in 1..Len(selected) : selected[i].k = -1}

\* consistentHashStrategy.Rebuild, recorded among the calls with k = -1
ConsistentHashRebuild(backends) ==
    /\ selector.kind = "consistent_hash"
    /\ Started < MaxSelections
    /\ Cardinality(Rebuilds) < MaxRebuilds
    /\ selector' = Rebuild(backends, selector)
    /\ selected' = Append(selected, [k |-> -1, backends |-> backends, chosen |-> 0,
                                     hashKey |-> selector.hashKey])
    /\ UNCHANGED <<weight, callers, lastInput, offStrategy>>

InitStrategy ==
    /\ HandlerIdle
    /\ cbThreshold = FailureThreshold
    /\ BreakerNew
    /\ RegistryIdle
    /\ ProberIdle
    /\ CollectorIdle
    /\ selector \in {NewSelector(kind) : kind \in AllStrategyKinds}
    /\ weight \in IF selector.kind = "weighted-round-robin"
                  THEN [Backends -> 0..MaxWeight]
                  ELSE {[b \in Backends |-> 1]}
    /\ callers = [c \in Callers |-> IdleCaller]
    /\ selected = <<>>
    /\ lastInput = NoInput
    /\ CoordinatorIdle
    /\ MetricsIdle

NextStrategy ==
    \/ \E c \in Callers : RoundRobinEmpty(c)
    \/ \E c \in Callers, backends \in CandidateLists : RoundRobinAdd(c, backends)
    \/ \E c \in Callers : RoundRobinReturn(c)
    \/ \E backends \in CandidateLists : RandomSelectBackend(backends)
    \/ \E backends \in CandidateLists, c \in [Backends -> 0..MaxActive] :
         LeastConnSelectBackend(backends, c)
    \/ \E backends \in CandidateLists, ewma \in [Backends -> EWMAStates],
          c \in [Backends -> 0..MaxActive] : LeastResponseSelectBackend(backends, ewma, c)
    \/ \E key \in ClientIPs : ConsistentHashSetKey(key)
    \/ \E backends \in CandidateLists : ConsistentHashSelectBackend(backends)
    \/ \E backends \in CandidateLists : WeightedRoundRobinSelectBackend(backends)

SpecStrategy == InitStrategy /\ [][NextStrategy]_vars

(***************************************************************************)
(* One consistent-hash strategy under SetKey, SelectBackend and Rebuild    *)
(***************************************************************************)
InitRing ==
    /\ InitStrategy
    /\ selector = NewSelector("consistent_hash")

NextRing ==
    \/ \E key \in ClientIPs : ConsistentHashSetKey(key)
    \/ \E backends \in CandidateLists : ConsistentHashSelectBackend(backends)
    \/ \E backends \in CandidateLists : ConsistentHashRebuild(backends)

SpecRing == InitRing /\ [][NextRing]_vars

(***************************************************************************)
(* The coordinator specification: GetAndReserveServer and                  *)
(* GetAndReserveServerWithKey called by concurrent callers on one          *)
(* LoadBalancer while health flags change.  lbLast is the last return,     *)
(* lbCount the number of calls that returned.                              *)
(***************************************************************************)
\* the health checker's SetHealthy on a backend of the pool
PoolSetHealthy(b) ==
    /\ \E h \in BOOLEAN :
         /\ SetHealthy(pool.healthy[b], h).changed
         /\ pool' = [pool EXCEPT !.healthy[b] = SetHealthy(@, h).flag]
    /\ UNCHANGED <<selector, weight, lbCalls, lbLast, lbCount, offCoordinator>>

CallsStarted == lbCount + Cardinality({c \in Callers : lbCalls[c].pc # "idle"})

\* either function, lines 28-34 and 50-56: no backend of the input is healthy
CoordinatorNoHealthy(c, fn, backends) ==
    /\ lbCalls[c].pc = "idle"
    /\ CallsStarted < MaxCalls
    /\ Len(filterHealthyBackends(backends, pool.healthy)) = 0
    /\ lbLast' = [fn |-> fn, backend |-> 0, err |-> ErrNoHealthy, noHealthy |-> TRUE,
                  strategyNil |-> FALSE]
    /\ lbCount' = lbCount + 1
    /\ UNCHANGED <<selector, weight, pool, lbCalls, offCoordinator>>

\* GetAndReserveServer lines 28-37: filter and select with the mutex held
CoordinatorSelect(c, backends, ewma) ==
    /\ lbCalls[c].pc = "idle"
    /\ CallsStarted < MaxCalls
    /\ LET healthyBackends == filterHealthyBackends(backends, pool.healthy)
       IN  /\ Len(healthyBackends) # 0
           /\ \E res \in SelectBackend(selector.kind, healthyBackends, selector,
                                       pool.conns, weight, ewma) :
                /\ selector' = res.strat
                /\ lbCalls' = [lbCalls EXCEPT ![c] = [pc |-> "unlocked",
                                                      chosen |-> res.chosen]]
    /\ UNCHANGED <<weight, pool, lbLast, lbCount, offCoordinator>>

\* GetAndReserveServer lines 39-44, the mutex released
CoordinatorReserve(c) ==
    /\ lbCalls[c].pc = "unlocked"
    /\ LET r == ReturnChosen(lbCalls[c].chosen, pool.conns)
       IN  /\ pool' = [pool EXCEPT !.conns = r.conns]
           /\ lbLast' = [fn |-> "GetAndReserveServer", backend |-> r.backend,
                         err |-> r.err, noHealthy |-> FALSE,
                         strategyNil |-> lbCalls[c].chosen = 0]
    /\ lbCalls' = [lbCalls EXCEPT ![c] = IdleCall]
    /\ lbCount' = lbCount + 1
    /\ UNCHANGED <<selector, weight, offCoordinator>>

\* GetAndReserveServerWithKey lines 57-69, all with the mutex held
CoordinatorWithKey(c, backends, key, ewma) ==
    /\ lbCalls[c].pc = "idle"
    /\ CallsStarted < MaxCalls
    /\ LET healthyBackends == filterHealthyBackends(backends, pool.healthy)
           keyed == IF HasSetKey(selector.kind)
                    THEN [selector EXCEPT !.hashKey = SetKey(key)]
                    ELSE selector
       IN  /\ Len(healthyBackends) # 0
           /\ \E res \in SelectBackend(selector.kind, healthyBackends, keyed,
                                       pool.conns, weight, ewma) :
                LET r == ReturnChosen(res.chosen, pool.conns)
                IN  /\ selector' = res.strat
                    /\ pool' = [pool EXCEPT !.conns = r.conns]
                    /\ lbLast' = [fn |-> "GetAndReserveServerWithKey",
                                  backend |-> r.backend, err |-> r.err,
                                  noHealthy |-> FALSE, strategyNil |-> res.chosen = 0]
    /\ lbCount' = lbCount + 1
    /\ UNCHANGED <<weight, lbCalls, offCoordinator>>

InitCoordinator ==
    /\ HandlerIdle
    /\ cbThreshold = FailureThreshold
    /\ BreakerNew
    /\ RegistryIdle
    /\ ProberIdle
    /\ CollectorIdle
    /\ selector \in {NewSelector(kind) : kind \in AllStrategyKinds}
    /\ weight \in IF selector.kind = "weighted-round-robin"
                  THEN [Backends -> 0..MaxWeight]
                  ELSE {[b \in Backends |-> 1]}
    /\ callers = [c \in Callers |-> IdleCaller]
    /\ selected = <<>>
    /\ lastInput = NoInput
    /\ CoordinatorIdle
    /\ MetricsIdle

NextCoordinator ==
    \/ \E b \in Backends : PoolSetHealthy(b)
    \/ \E c \in Callers, backends \in CandidateLists,
          fn \in {"GetAndReserveServer", "GetAndReserveServerWithKey"} :
         CoordinatorNoHealthy(c, fn, backends)
    \/ \E c \in Callers, backends \in CandidateLists, ewma \in [Backends -> 0..MaxEWMA] :
         CoordinatorSelect(c, backends, ewma)
    \/ \E c \in Callers : CoordinatorReserve(c)
    \/ \E c \in Callers, backends \in CandidateLists, key \in ClientIPs,
          ewma \in [Backends -> 0..MaxEWMA] : CoordinatorWithKey(c, backends, key, ewma)

SpecCoordinator == InitCoordinator /\ [][NextCoordinator]_vars

(***************************************************************************)
(* The metrics specification: the operations of one Metrics object in any  *)
(* order (each holds the mutex for its whole body).  snap is the last      *)
(* Snapshot returned, snapSeen what it showed when it was returned,        *)
(* recorded every duration passed to RecordResponse, per backend.          *)
(***************************************************************************)
MetricsIncrementRequests(b) ==
    /\ mxOps < MaxMetricOps
    /\ mx' = IncrementRequests(mx, b)
    /\ mxOps' = mxOps + 1
    /\ UNCHANGED <<snap, snapSeen, recorded, offMetrics>>

MetricsRecordBackendSelection(b) ==
    /\ mxOps < MaxMetricOps
    /\ mx' = RecordBackendSelection(mx, b)
    /\ mxOps' = mxOps + 1
    /\ UNCHANGED <<snap, snapSeen, recorded, offMetrics>>

MetricsRecordResponse(b, d, code) ==
    /\ mxOps < MaxMetricOps
    /\ mx' = RecordResponse(mx, b, d, code)
    /\ recorded' = [recorded EXCEPT ![b] = Append(@, d)]
    /\ mxOps' = mxOps + 1
    /\ UNCHANGED <<snap, snapSeen, offMetrics>>

MetricsUpdateHealthStatus(b, h) ==
    /\ mxOps < MaxMetricOps
    /\ mx' = UpdateHealthStatus(mx, b, h)
    /\ mxOps' = mxOps + 1
    /\ UNCHANGED <<snap, snapSeen, recorded, offMetrics>>

MetricsSnapshot ==
    /\ mxOps < MaxMetricOps
    /\ snap' = Snapshot(mx)
    /\ snapSeen' = Read(Snapshot(mx), mx)
    /\ mxOps' = mxOps + 1
    /\ UNCHANGED <<mx, recorded, offMetrics>>

InitMetrics ==
    /\ HandlerIdle
    /\ cbThreshold = FailureThreshold
    /\ BreakerNew
    /\ RegistryIdle
    /\ ProberIdle
    /\ CollectorIdle
    /\ StrategyIdle
    /\ CoordinatorIdle
    /\ MetricsIdle

NextMetrics ==
    \/ \E b \in Backends : MetricsIncrementRequests(b)
    \/ \E b \in Backends : MetricsRecordBackendSelection(b)
    \/ \E b \in Backends, d \in Durations, code \in ResponseCodes :
         MetricsRecordResponse(b, d, code)
    \/ \E b \in Backends, h \in BOOLEAN : MetricsUpdateHealthStatus(b, h)
    \/ MetricsSnapshot

SpecMetrics == InitMetrics /\ [][NextMetrics]_vars

(***************************************************************************)
(* Properties                                                              *)
(***************************************************************************)
\* the forwards one request has made, over all backends
Forwards(q) == SumCalls(q.calls, NumBackends)

\* every request that was started has returned
Quiescent == \A r \in Requests : req[r].pc \in {"idle", "done"}

\* request r returns in this step with the 503 of the end of the loop
EndsUnavailable(r) ==
    /\ req[r].pc \notin {"idle", "done"}
    /\ req'[r].pc = "done"
    /\ req'[r].result = "unavailable"

\* C1: connection conservation at quiescence - when every request that went
\* through ServeHTTP has returned, ActiveConnections() of every backend is 0.
C1_ConnectionConservation ==
    Quiescent => \A b \in Backends : conns[b] = 0

\* C2: select-and-reserve is atomic - while one coordinator call is between
\* its strategy selection and its IncrementConn, no other coordinator call
\* runs its strategy selection.
C2_SelectAndReserveAtomic ==
    [][\A r, o \in Requests :
          (o # r /\ req[o].pc = "reserve")
             => ~(req[r].pc = "select" /\ req'[r].selections = req[r].selections + 1)]_vars

C4_PartialResponseSafety ==
    [][\A r \in Requests :
          (/\ req[r].pc = "record"
           /\ req[r].proxyErr
           /\ req[r].w.code # 0
           /\ req'[r] # req[r])
             => /\ req'[r].pc = "done"
                /\ req'[r].result = "partial"
                /\ req'[r].w = req[r].w
                /\ req'[r].calls = req[r].calls
                /\ req'[r].selections = req[r].selections]_vars

\* a request returned after a partial response on its first attempt, with
\* attempts left in its budget and a healthy backend it never asked
C4_Witness ==
    \E r \in Requests :
       /\ req[r].pc = "done"
       /\ req[r].result = "partial"
       /\ req[r].attempt < req[r].maxAttempts
       /\ req[r].w.code = StatusOK
       /\ \E b \in Backends : healthy[b] /\ req[r].calls[b] = 0

\* C5: per-request exclusion - under every strategy, the backend a selection
\* returns was not selected earlier in the same request.
C5_PerRequestExclusion ==
    [][\A r \in Requests :
          (req'[r].selections = req[r].selections + 1 /\ req'[r].nextServer # 0)
             => req'[r].nextServer \notin req[r].triedBackends]_vars

\* C6: retry on failure - an idempotent request with maxRetries >= 1 of which
\* an attempt failed before any header does not end with the 503 while there
\* is a healthy backend that answers successfully and that the request was
\* never forwarded to.
C6_RetryOnFailure ==
    [][\A r \in Requests :
          (/\ EndsUnavailable(r)
           /\ isIdempotent(req[r].method)
           /\ cfg.maxRetries >= 1
           /\ Forwards(req[r]) >= 1)
             => ~\E b \in Backends :
                    /\ healthy[b]
                    /\ upstream[b] = "sound"
                    /\ b \notin req[r].triedBackends]_vars

\* C7: breaker gating - with breakers configured a backend's reverse proxy is
\* invoked only after its breaker allowed the attempt, and an idempotent
\* request with retries configured whose earlier attempts were all denied
\* does not end with the 503 while a healthy backend that it has not selected
\* has a CLOSED breaker.
C7_BreakerGating ==
    [][\A r \in Requests :
          /\ (cfg.cbEnabled /\ req'[r].calls # req[r].calls) => req[r].allowed
          /\ (/\ EndsUnavailable(r)
              /\ cfg.cbEnabled
              /\ isIdempotent(req[r].method)
              /\ cfg.maxRetries >= 1
              /\ req[r].attempt >= 2
              /\ Forwards(req[r]) = 0)
                => ~\E b \in Backends :
                       /\ healthy[b]
                       /\ breakers[b].state = StateClosed
                       /\ b \notin req[r].triedBackends]_vars

\* C8: failure surface - a request that ends without a backend having served
\* it has status 503 and no X-Backend-Server header on its response.
C8_FailureSurface ==
    \A r \in Requests :
       (req[r].pc = "done" /\ req[r].result = "unavailable")
          => /\ req[r].w.code = StatusServiceUnavailable
             /\ req[r].w.xBackendServer = 0

\* C9: RecordSuccess from any state leaves the breaker CLOSED with
\* failures = 0, and from then on the breaker is not CLOSED only after a full
\* failureThreshold of failures since the last success.
C9_RecordSuccessCloses ==
    /\ lastOp = "RecordSuccess" => (cb.state = StateClosed /\ cb.failures = 0)
    /\ (succeeded /\ cb.state # StateClosed) => streak >= cbThreshold
    /\ succeeded => cb.failures = streak

\* a success recorded on a breaker that was OPEN, its threshold above one
C9_Witness ==
    /\ cbThreshold >= 2
    /\ lastOp = "RecordSuccess"
    /\ prevState = StateOpen
    /\ cb.state = StateClosed
    /\ cb.failures = 0

\* C10: breaker trip - after any RecordFailure with failures >= threshold the
\* state is OPEN; with no success in between, the breaker is CLOSED after
\* fewer than threshold failures and OPEN after exactly threshold failures.
C10_BreakerTrip ==
    /\ (lastOp = "RecordFailure" /\ cb.failures >= cbThreshold) => cb.state = StateOpen
    /\ (~succeeded /\ streak < cbThreshold) => cb.state = StateClosed
    /\ (~succeeded /\ streak = cbThreshold /\ lastOp = "RecordFailure")
          => (cb.state = StateOpen /\ cb.failures = cbThreshold)

\* the failure that reaches a threshold above one trips the breaker
C10_Witness ==
    /\ cbThreshold >= 2
    /\ ~succeeded
    /\ lastOp = "RecordFailure"
    /\ streak = cbThreshold
    /\ prevState = StateClosed
    /\ cb.state = StateOpen

\* C11: Allow in OPEN - called less than resetTimeout after the last recorded
\* failure it returns false and the breaker stays OPEN; called at least
\* resetTimeout after it, it moves the breaker to HALF_OPEN and returns true.
C11_AllowInOpen ==
    [][(cb.state = StateOpen /\ lastOp' = "Allow" /\ ops' = ops + 1)
          => IF cb.age < ResetTimeout
             THEN ~lastAllow' /\ cb'.state = StateOpen
             ELSE lastAllow' /\ cb'.state = StateHalfOpen]_vars

\* an Allow found the breaker OPEN with the reset timeout elapsed
C11_Witness ==
    /\ lastOp = "Allow"
    /\ prevState = StateOpen
    /\ cb.state = StateHalfOpen
    /\ lastAllow

\* C12: a RecordFailure on a HALF_OPEN breaker leaves it OPEN, for every
\* failure count and threshold.
C12_HalfOpenFailureReopens ==
    (lastOp = "RecordFailure" /\ prevState = StateHalfOpen) => cb.state = StateOpen

\* a failure was recorded on a HALF_OPEN breaker
C12_Witness ==
    /\ lastOp = "RecordFailure"
    /\ prevState = StateHalfOpen
    /\ cb.state = StateOpen
    /\ cb.failures > cbThreshold

\* C13: registry uniqueness - under any interleaving of concurrent GetBreaker
\* calls every call for one URL returns the same breaker, different URLs get
\* different breakers, and the registry makes and holds one breaker per URL.
C13_RegistryUniqueness ==
    /\ \A x, y \in handed : (x[1] = y[1]) <=> (x[2] = y[2])
    /\ \A x \in handed : x[2] # 0 /\ registry.breakers[x[1]] = x[2]
    /\ \A u \in Backends : registry.made[u] <= 1

\* both URLs have their breaker, and a call returned a breaker that another,
\* concurrent call had inserted after the first call's read lock was taken
C13_Witness ==
    /\ \A u \in Backends : \E x \in handed : x[1] = u
    /\ \E g \in Getters :
          /\ getters[g].pc = "read"
          /\ ~getters[g].exists
          /\ registry.breakers[getters[g].backendURL] # 0

\* C14: a backend is unhealthy at construction, and no step of request
\* handling (selection, reservation, breaker check, forwarding, outcome
\* recording) changes a health flag: a step that changes one leaves every
\* request, counter, breaker and strategy as it was.
C14_HealthFlagFrame ==
    /\ \A b \in Backends : ~healthy[b]
    /\ [][healthy' # healthy
             => /\ req' = req
                /\ conns' = conns
                /\ breakers' = breakers
                /\ strat' = strat]_vars

\* a request failed on a backend that is still marked healthy, and another
\* request was served
C14_Witness ==
    \E r, o \in Requests, b \in Backends :
       /\ req[r].pc = "done"
       /\ req[r].result = "unavailable"
       /\ req[r].calls[b] > 0
       /\ healthy[b]
       /\ req[o].pc = "done"
       /\ req[o].result = "served"

\* what SetHealthy itself does: it reports a change exactly when the flag
\* differed, and a call with the current value changes nothing
SetHealthyExact ==
    \A flag, x \in BOOLEAN :
       /\ SetHealthy(flag, x).changed = (flag # x)
       /\ SetHealthy(flag, x).flag = x
       /\ (flag = x) => SetHealthy(flag, x) = [flag |-> flag, changed |-> FALSE]

\* C15 as stated: SetHealthy reports change exactly and is idempotent, and a
\* probe whose SetHealthy reports no change emits no log event.
C15_SetHealthyIdempotent ==
    /\ SetHealthyExact
    /\ \A b \in Backends :
          hc[b].last.log # "never"
             => /\ hc[b].last.changed = (hc[b].last.before # hc[b].last.set)
                /\ ~hc[b].last.changed => hc[b].last.log = "none"

\* C15, amended: SetHealthy reports change exactly and is idempotent, and a
\* periodic probe whose SetHealthy reports no change emits no log event; the
\* initial probe logs its finding (down on an error, up on a 200) also when
\* the flag did not change.
C15_SetHealthyIdempotentPeriodic ==
    /\ SetHealthyExact
    /\ \A b \in Backends :
          hc[b].last.log # "never"
             => /\ hc[b].last.changed = (hc[b].last.before # hc[b].last.set)
                /\ (~hc[b].last.changed /\ ~hc[b].last.isInitial)
                      => hc[b].last.log = "none"
                /\ (~hc[b].last.changed /\ hc[b].last.isInitial)
                      => hc[b].last.log \in {"none", "warn: down (initial check)",
                                             "info: up (initial check)"}

\* a periodic probe found a healthy backend answering 200: no change, no log
C15_Witness ==
    \E b \in Backends :
       /\ hc[b].last.log = "none"
       /\ ~hc[b].last.isInitial
       /\ hc[b].last.before
       /\ hc[b].last.set
       /\ ~hc[b].last.changed
       /\ healthy[b]

\* C16: prober termination - once the root context is cancelled every
\* HealthCheck loop eventually returns; a loop that has returned probes no
\* more; and each loop logs its stop once, when it returns.
C16_ProberTermination ==
    /\ [](\A b \in Backends : hc[b].stops = IF hc[b].pc = "stopped" THEN 1 ELSE 0)
    /\ [][\A b \in Backends :
             hc[b].pc = "stopped" => (hc'[b] = hc[b] /\ healthy'[b] = healthy[b])]_vars
    /\ (ctxDone ~> \A b \in Backends : hc[b].pc = "stopped")

\* every loop has returned after the cancellation, one of them after a
\* periodic probe that was called with the context already cancelled
C16_Witness ==
    /\ ctxDone
    /\ \A b \in Backends : hc[b].pc = "stopped" /\ hc[b].stops = 1
    /\ \E b \in Backends : hc[b].cancelled /\ ~hc[b].last.isInitial

\* C17: drain on shutdown - when the collector goroutine has exited, every
\* event that was enqueued on the metrics channel before the context was
\* cancelled has been processed (applied to the store).
C17_DrainOnShutdown ==
    /\ collector.processed <= collector.given
    /\ collector.pc = "exited" => collector.processed = collector.given
    /\ store.requests + store.selections + store.responses >= collector.processed

\* the collector exited after draining events that were in the channel, all
\* enqueued before the cancellation
C17_Witness ==
    /\ collector.pc = "exited"
    /\ collector.given >= BufferSize + 1
    /\ collector.processed = collector.given
    /\ store.requests + store.selections + store.responses = collector.given

\* C18: non-blocking emission - an attempt that is about to emit can always
\* take its step, whatever the channel holds and wherever the collector is;
\* a full channel drops the event; and the attempt ends as its upstream
\* answered, with or without drops.
C18_NonBlockingEmission ==
    /\ \A e \in Emitters :
          /\ emitters[e].pc = "received" => ENABLED EmitRequestReceived(e)
          /\ emitters[e].pc = "selected" => ENABLED EmitBackendSelected(e)
          /\ emitters[e].pc = "completed" => ENABLED EmitResponseCompleted(e)
          /\ emitters[e].pc = "done"
                => emitters[e].outcome = (IF emitters[e].answer = "ok" THEN "served"
                                          ELSE "failed")
    /\ Len(eventCh) <= BufferSize

\* with the collector gone and the channel full, an attempt lost all three of
\* its events and was served
C18_Witness ==
    /\ collector.pc = "exited"
    /\ Len(eventCh) = BufferSize
    /\ \E e \in Emitters :
          /\ emitters[e].pc = "done"
          /\ emitters[e].outcome = "served"
          /\ emitters[e].dropped = 3

\* C19: every SelectBackend call returns a member of the candidate list it was
\* given, for every strategy and through any sequence of calls with differing
\* lists; it returns nil only for an empty list or, for weighted round-robin,
\* a list with no positive weight.
MemberOrAllowedNil(s) ==
    IF s.chosen = 0
    THEN \/ s.backends = <<>>
         \/ /\ selector.kind = "weighted-round-robin"
            /\ \A b \in Members(s.backends) : weight[b] <= 0
    ELSE s.chosen \in Members(s.backends)

C19_ResultMembership == \A i \in 1..Len(selected) : MemberOrAllowedNil(selected[i])

\* C20: round-robin rotation.  The k-th SelectBackend call (k = 0, 1, 2, ...,
\* counted by the counter value the call took) returns candidates[k mod n];
\* any n*m consecutive selections over one list of n candidates pick every
\* candidate exactly m times; with concurrent callers every counter value is
\* taken by exactly one call.
RoundRobinCalls == {i \in 1..Len(selected) : selected[i].backends # <<>>}

\* the backend the call that took counter value t returned
ChosenAt(t) == selected[CHOOSE i \in RoundRobinCalls : selected[i].k = t].chosen

C20_RoundRobinRotation ==
    selector.kind = "round-robin" =>
      /\ \A i \in RoundRobinCalls :
           LET s == selected[i]
           IN  s.chosen = s.backends[((s.k - 1) % Len(s.backends)) + 1]
      /\ \A t \in 1..selector.current :
           Cardinality({i \in RoundRobinCalls : selected[i].k = t})
             + Cardinality({c \in Callers : callers[c].pc = "added" /\ callers[c].n = t})
             = 1
      /\ \A i \in RoundRobinCalls : selected[i].k \in 1..selector.current
      /\ \A l \in CandidateLists \ {<<>>}, a \in 1..MaxSelections, m \in 1..MaxSelections :
           LET window == a..(a + Len(l) * m - 1)
           IN  (\A t \in window :
                  \E i \in RoundRobinCalls : selected[i].k = t /\ selected[i].backends = l)
               => \A b \in Members(l) :
                    Cardinality({t \in window : ChosenAt(t) = b}) = m

\* two full rounds over one list of two candidates, returned by concurrent
\* callers out of the order in which they took their counter values
C20_Witness ==
    /\ selector.kind = "round-robin"
    /\ Len(selected) = 4
    /\ \A i \in 1..4 : Len(selected[i].backends) = 2 /\ selected[i].backends = selected[1].backends
    /\ \E i, j \in 1..4 : i < j /\ selected[i].k > selected[j].k

\* C21: smooth-WRR proportionality.  On a fresh weighted round-robin strategy
\* called with one fixed candidate list whose weights w1..wk are all positive,
\* after N = s * (w1 + ... + wk) selections backend i was selected exactly
\* s * wi times.
RECURSIVE SumWeights(_, _)
SumWeights(list, w) ==
    IF list = <<>> THEN 0 ELSE w[Head(list)] + SumWeights(Tail(list), w)

TimesSelected(b) == Cardinality({i \in 1..Len(selected) : selected[i].chosen = b})

\* every call so far was given the list l
FixedList(l) == \A i \in 1..Len(selected) : selected[i].backends = l

C21_SmoothWRRProportionality ==
    \A l \in CandidateLists \ {<<>>}, s \in 1..MaxSelections :
      ( /\ selector.kind = "weighted-round-robin"
        /\ FixedList(l)
        /\ \A b \in Members(l) : weight[b] > 0
        /\ Len(selected) = s * SumWeights(l, weight) )
      => \A b \in Members(l) : TimesSelected(b) = s * weight[b]

\* one full cycle over two candidates of unequal positive weight
C21_Witness ==
    /\ selector.kind = "weighted-round-robin"
    /\ \E l \in CandidateLists :
         /\ Len(l) = 2
         /\ FixedList(l)
         /\ \A b \in Members(l) : weight[b] > 0
         /\ weight[l[1]] # weight[l[2]]
         /\ Len(selected) = SumWeights(l, weight)

\* C22: consistent-hash stability.  Once the ring is built, the backend that
\* SetKey(key) followed by SelectBackend returns depends on key alone: two
\* such calls with the same key return the same backend, whatever other keys
\* were looked up in between (and whatever lists the calls were given).
\* the ring was built by call i or an earlier one
RingBuiltBy(i) == \E j \in 1..i : selected[j].backends # <<>>

C22_ConsistentHashStability ==
    selector.kind = "consistent_hash" =>
      \A i, j \in 1..Len(selected) :
        (RingBuiltBy(i) /\ RingBuiltBy(j) /\ selected[i].hashKey = selected[j].hashKey)
          => selected[i].chosen = selected[j].chosen

\* key A, then key B (another backend), then key A again: the same backend as
\* the first time, although the last call was given a different list
C22_Witness ==
    /\ selector.kind = "consistent_hash"
    /\ Len(selected) >= 3
    /\ RingBuiltBy(1)
    /\ selected[1].hashKey = selected[3].hashKey
    /\ selected[1].hashKey # selected[2].hashKey
    /\ selected[1].chosen # selected[2].chosen
    /\ selected[1].backends # selected[3].backends
    /\ selected[1].chosen = selected[3].chosen

\* C23: connection-counter bound.  In every reachable state, for every
\* backend B, 0 <= activeConnections(B) <= the number of request attempts in
\* flight that target B (selected and reserved, not yet released).
\* the attempts in flight on backend b: reserved by the coordinator, the
\* DecrementConn after the proxy call not yet made
InFlight(b) ==
    {r \in Requests : req[r].pc \in {"allow", "forward", "proxy"} /\ req[r].nextServer = b}

C23_ConnectionCounterBound ==
    \A b \in Backends : 0 <= conns[b] /\ conns[b] <= Cardinality(InFlight(b))

\* C24: attempt budget.  A request with an idempotent method and
\* maxRetries = r > 0 makes at most 1 + r backend selections, any other
\* request at most 1; a selection that the breaker denies takes one unit of
\* that budget although nothing is forwarded.
AttemptBudget(q) ==
    IF q.method \in {"GET", "HEAD", "OPTIONS", "TRACE", "PUT", "DELETE"} /\ cfg.maxRetries > 0
    THEN 1 + cfg.maxRetries
    ELSE 1

\* request r is denied by the breaker of its selected backend in this step
Denied(r) == req[r].pc = "allow" /\ req'[r].pc \notin {"allow", "forward"}

C24_AttemptBudget ==
    /\ [](\A r \in Requests :
            req[r].pc # "idle" =>
              /\ req[r].selections <= AttemptBudget(req[r])
              /\ req[r].selections =
                   IF req[r].pc = "select" THEN req[r].attempt - 1
                   ELSE IF req[r].attempt > req[r].maxAttempts THEN req[r].maxAttempts
                   ELSE req[r].attempt)
    /\ [][\A r \in Requests :
            Denied(r) =>
              /\ Forwards(req'[r]) = Forwards(req[r])
              /\ req'[r].attempt = req[r].attempt + 1
              /\ req'[r].selections = req[r].selections
              /\ IF req[r].selections < AttemptBudget(req[r])
                 THEN req'[r].pc = "select"
                 ELSE req'[r].pc = "done" /\ req'[r].result = "unavailable"]_vars

\* a request that spent its whole budget of two selections on denials and
\* returned without ever being forwarded
C24_Witness ==
    \E r \in Requests :
      /\ req[r].pc = "done"
      /\ req[r].result = "unavailable"
      /\ cfg.cbEnabled
      /\ req[r].selections = 2
      /\ AttemptBudget(req[r]) = 2
      /\ Forwards(req[r]) = 0
      /\ \A b \in Backends : healthy[b]

\* C25: coordinator errors.  GetAndReserveServer and GetAndReserveServerWithKey
\* return an error and no backend when no backend of the input is healthy or
\* when the strategy returns nil for a non-empty healthy set, and only then;
\* a call that returns an error changes no connection counter, a call that
\* succeeds increases the counter of the backend it returns by 1 and no other.
\* a coordinator call returns in this step
CoordinatorReturns == lbCount' = lbCount + 1

C25_CoordinatorErrors ==
    /\ [](lbLast.fn # "" =>
            /\ (lbLast.err # "") <=> (lbLast.noHealthy \/ lbLast.strategyNil)
            /\ lbLast.noHealthy => lbLast.err = ErrNoHealthy
            /\ lbLast.err # "" => lbLast.backend = 0
            /\ lbLast.err = "" => lbLast.backend \in Backends)
    /\ [][CoordinatorReturns =>
            IF lbLast'.err # ""
            THEN pool'.conns = pool.conns
            ELSE pool'.conns = [pool.conns EXCEPT ![lbLast'.backend] = @ + 1]]_vars

\* the strategy returned nil for a healthy candidate (weighted round-robin, no
\* positive weight among the candidates) after an earlier call had succeeded
\* and one had found no healthy backend
C25_Witness ==
    /\ lbLast.err = ErrStrategyNil
    /\ lbCount = 3
    /\ \E b \in Backends : pool.conns[b] = 1
    /\ \A b \in Backends : pool.conns[b] <= 1
    /\ Cardinality({b \in Backends : pool.conns[b] = 1}) = 1

\* C26: snapshot independence.  A Snapshot returned by Metrics.Snapshot shows
\* the same values whatever updates follow: no later IncrementRequests,
\* RecordBackendSelection, RecordResponse or UpdateHealthStatus changes any of
\* its values, its per-backend status-code counts included.
C26_SnapshotIndependence == snap.taken => Read(snap, mx) = snapSeen

\* C27: latency sample window.  After any sequence of RecordResponse calls
\* each backend's stored samples are at most the window (1000 in the source)
\* and are the most recent min(n, window) recorded samples, in arrival order.
MostRecent(ds, n) ==
    IF Len(ds) <= n THEN ds ELSE SubSeq(ds, Len(ds) - n + 1, Len(ds))

C27_LatencySampleWindow ==
    \A b \in Backends :
      /\ Len(Get(mx.responseTimes, b, <<>>)) <= SampleWindow
      /\ Get(mx.responseTimes, b, <<>>) = MostRecent(recorded[b], SampleWindow)

\* more samples than the window were recorded for a backend, the dropped one
\* different from the newest
C27_Witness ==
    \E b \in Backends :
      /\ Len(recorded[b]) = SampleWindow + 1
      /\ recorded[b][1] # recorded[b][SampleWindow + 1]
      /\ Len(mx.responseTimes[b]) = SampleWindow

\* C28: least-response selection.  If any candidate has no recorded EWMA
\* sample, SelectBackend returns the first such candidate in input order;
\* otherwise it returns the candidate that minimises
\* ewmaLatency * (activeConnections + 1), the first in input order on ties.
Score(b) == lastInput.ewma[b].ewmaResponseTime * (lastInput.conns[b] + 1)

\* the position in the list of the candidate the rule names
LeastResponseRule(backends) ==
    LET cold == {i \in 1..Len(backends) : ~lastInput.ewma[backends[i]].hasEWMA}
        least == {i \in 1..Len(backends) :
                    \A j \in 1..Len(backends) : Score(backends[i]) <= Score(backends[j])}
        first(S) == CHOOSE i \in S : \A j \in S : i <= j
    IN  IF cold # {} THEN first(cold) ELSE first(least)

C28_LeastResponseSelection ==
    (selector.kind = "least-response" /\ selected # <<>>) =>
      LET last == selected[Len(selected)]
      IN  last.backends # <<>> =>
            last.chosen = last.backends[LeastResponseRule(last.backends)]

\* C29: per-request ordering.  Within one attempt the steps occur in the order
\* select, reserve (connection increment), breaker Allow check, forward,
\* breaker RecordSuccess/RecordFailure, connection decrement; in particular
\* the breaker outcome is recorded before the backend's connection counter is
\* decremented.
\* the attempt of r is past the DecrementConn that follows its proxy call
PastDecrement(r) == req[r].pc = "record"

\* as stated: when the breaker is told the outcome, the decrement is still to come
C29_PerRequestOrdering ==
    [][\A r \in Requests :
          (cfg.cbEnabled /\ RecordOutcome(r)) => ~PastDecrement(r)]_vars

\* C29 (amended): within one attempt the steps occur in the order select,
\* reserve (connection increment), breaker Allow check, forward, connection
\* decrement, breaker RecordSuccess/RecordFailure: the counter is decremented
\* when the proxy call returns, before the breaker is told the outcome.
C29_PerRequestOrderingDecrementFirst ==
    [][\A r \in Requests :
          LET q == req[r]
              n == req'[r]
              b == q.nextServer
          IN  (n # q /\ q.pc \notin {"idle", "done"}) =>
                CASE q.pc = "select" ->
                       /\ n.selections = q.selections + 1
                       /\ n.pc \in {"reserve", "allow", "forward", "done"}
                       /\ breakers' = breakers
                       /\ n.pc \in {"allow", "forward"} =>
                            conns' = [conns EXCEPT ![n.nextServer] = @ + 1]
                       /\ n.pc \in {"reserve", "done"} => conns' = conns
                  [] q.pc = "reserve" ->
                       /\ n.pc \in {"allow", "forward"}
                       /\ conns' = [conns EXCEPT ![b] = @ + 1]
                       /\ breakers' = breakers
                  [] q.pc = "allow" ->
                       /\ n.pc \in {"forward", "select", "done"}
                       /\ breakers' = [breakers EXCEPT ![b] = Allow(@).cb]
                       /\ Forwards(n) = Forwards(q)
                       /\ conns' = conns
                  [] q.pc = "forward" ->
                       /\ n.pc = "proxy"
                       /\ Forwards(n) = Forwards(q) + 1
                       /\ breakers' = breakers
                  [] q.pc = "proxy" ->
                       /\ n.pc = "record"
                       /\ conns' = [conns EXCEPT ![b] = IF @ > 0 THEN @ - 1 ELSE 0]
                       /\ breakers' = breakers
                  [] q.pc = "record" ->
                       /\ n.pc \in {"select", "done"}
                       /\ conns' = conns
                       /\ cfg.cbEnabled =>
                            breakers' = [breakers EXCEPT ![b] =
                                           IF q.proxyErr
                                           THEN RecordFailure(@, cfg.threshold)
                                           ELSE RecordSuccess(@)]]_vars

\* a forward has failed and its connection was given back, while the breaker
\* of the backend has not been told of any failure yet
C29_Witness ==
    \E r \in Requests :
      /\ req[r].pc = "record"
      /\ cfg.cbEnabled
      /\ req[r].proxyErr
      /\ breakers[req[r].nextServer].failures = 0

\* C30: breaker invariant.  For failureThreshold >= 1, in every state reached
\* by any interleaving of Allow, RecordSuccess and RecordFailure, a CLOSED
\* breaker has fewer failures than the threshold.
C30_ClosedBelowThreshold ==
    cbThreshold >= 1 => (cb.state = StateClosed => cb.failures < cbThreshold)

\* a closed breaker one failure short of tripping, after an earlier success
C30_Witness ==
    /\ cbThreshold >= 2
    /\ cb.state = StateClosed
    /\ cb.failures = cbThreshold - 1
    /\ lastOp = "RecordFailure"
    /\ succeeded

C32_OutcomeReporting ==
    [][\A r \in Requests :
         LET q == req[r]
             b == q.nextServer
         IN  /\ (q.pc = "record" /\ req'[r] # q) =>
                    /\ q.allowed <=> cfg.cbEnabled
                    /\ breakers' =
                         IF ~q.allowed THEN breakers
                         ELSE IF q.proxyErr
                              THEN [breakers EXCEPT ![b] = RecordFailure(@, cfg.threshold)]
                              ELSE [breakers EXCEPT ![b] = RecordSuccess(@)]
             /\ (q.allowed /\ q.pc # "record" /\ req'[r] # q) =>
                    /\ req'[r].allowed
                    /\ req'[r].attempt = q.attempt
                    /\ req'[r].nextServer = b
                    /\ req'[r].pc \in {"proxy", "record"}
                    /\ breakers' = breakers
             /\ Denied(r) =>
                    /\ ~Allow(breakers[b]).ok
                    /\ breakers' = breakers
                    /\ ~req'[r].allowed
                    /\ req'[r].pc \in {"select", "done"}
             /\ (~q.allowed /\ q.pc # "allow" /\ req'[r] # q) => breakers' = breakers
      ]_vars

\* the only request made was admitted by the breaker, failed after the
\* response was begun, and left exactly one failure on its backend's breaker
C32_Witness ==
    \E r \in Requests :
      /\ cfg.cbEnabled
      /\ req[r].result = "partial"
      /\ \A o \in Requests \ {r} : req[o].pc = "idle"
      /\ breakers[req[r].w.xBackendServer].failures = 1
      /\ req[r].selections = 1

\* C33: health-transition logging - every probe whose SetHealthy call changes
\* the backend's health flag emits exactly one log event, info for down to up
\* and warn for up to down, also when the up-to-down transition comes from a
\* transport error on a periodic probe.
C33_TransitionLogged ==
    \A b \in Backends :
       (hc[b].last.log # "never" /\ hc[b].last.changed)
          => IF hc[b].last.before
             THEN hc[b].last.log \in {"warn: down", "warn: down (initial check)"}
             ELSE hc[b].last.log = "info: back up"

\* C34: probe outcome mapping and recovery - after each completed probe the
\* backend's health flag equals (a response was received and its status was
\* 200), and nothing else in the prober moves the flag; with a ticker that
\* keeps ticking and no cancellation probes keep completing, so a backend
\* whose /health keeps answering 200 is eventually marked healthy and stays
\* so, and one that stops answering 200 is eventually marked unhealthy and
\* stays so.
C34_ProbeOutcomeMapping ==
    /\ [][\A b \in Backends :
             IF hc[b].pc = "probing" /\ hc'[b].pc = "select"
             THEN healthy'[b] = (hc'[b].last.answer = "200")
             ELSE healthy'[b] = healthy[b]]_vars
    /\ \A b \in Backends :
          /\ <>ctxDone \/ []<><<ProbeCompletes(b)>>_vars
          /\ <>ctxDone \/ ~<>[](hc[b].last.answer = "200") \/ <>[]healthy[b]
          /\ <>ctxDone \/ ~<>[](hc[b].last.answer \in {"other", "error"})
                       \/ <>[]~healthy[b]

\* a periodic probe got a 200 from a backend that was marked unhealthy and
\* marked it healthy
C34_Witness ==
    \E b \in Backends :
       /\ hc[b].pc = "select"
       /\ ~hc[b].last.isInitial
       /\ hc[b].last.answer = "200"
       /\ ~hc[b].last.before
       /\ healthy[b]
       /\ ~ctxDone

\* the events the attempts lost to a full channel
DroppedEvents ==
    LET sum[n \in 0..NumEmitters] ==
            IF n = 0 THEN 0 ELSE emitters[n].dropped + sum[n - 1]
    IN  sum[NumEmitters]

\* every attempt is before or after its pair of emissions, and the collector
\* has processed all that was enqueued
AllProcessed ==
    /\ Len(eventCh) = 0
    /\ \A e \in Emitters : emitters[e].pc # "selected"

Distance(a, b) == IF a >= b THEN a - b ELSE b - a

\* C35 as stated: requests and selections agree - once the collector has
\* processed all events that were enqueued, the store's requests count equals
\* its selections count; no run of the handler and collector makes them
\* differ.
C35_RequestsEqualSelections ==
    AllProcessed => store.requests = store.selections

\* C35, amended: once the collector has processed all events that were
\* enqueued, requests and selections agree when no event was dropped; the two
\* events of an attempt are sent separately and without blocking, so a full
\* channel can drop one of them alone, and the counters then differ by at
\* most the number of dropped events.
C35_RequestsEqualSelectionsUnlessDropped ==
    AllProcessed =>
       /\ DroppedEvents = 0 => store.requests = store.selections
       /\ Distance(store.requests, store.selections) <= DroppedEvents

\* every attempt emitted its pair, nothing was dropped, all was processed
C35_Witness ==
    /\ AllProcessed
    /\ DroppedEvents = 0
    /\ \A e \in Emitters : emitters[e].pc \in {"proxy", "completed", "done"}
    /\ store.requests = NumEmitters
    /\ store.selections = NumEmitters

\* the running total of a backend, 0 when the map has no entry for it
TotalOf(current, b) == IF b \in DOMAIN current THEN current[b] ELSE 0

\* C36 as stated: WRR pruning - after every SelectBackend(candidates) call
\* the backends with an entry in the running-totals map are among that
\* call's candidates.
C36_WRRPruning ==
    (selector.kind = "weighted-round-robin" /\ Len(selected) > 0)
       => DOMAIN selector.totals \subseteq Members(selected[Len(selected)].backends)

\* C36, amended: after every SelectBackend call with a non-empty candidate
\* list the backends with an entry in the running-totals map are among that
\* call's candidates, and a candidate of positive weight that had no entry
\* (absent from the previous non-empty call, or never seen) starts from 0; a
\* call with an empty list returns nil before pruning and leaves the map as
\* it was.
C36_WRRPruningNonEmpty ==
    [][(selector.kind = "weighted-round-robin" /\ Len(selected') = Len(selected) + 1)
         => LET call == selected'[Len(selected')]
                total == SumWeights(call.backends, weight)
            IN  IF call.backends = <<>>
                THEN call.chosen = 0 /\ selector'.totals = selector.totals
                ELSE /\ DOMAIN selector'.totals \subseteq Members(call.backends)
                     /\ \A b \in Members(call.backends) :
                           weight[b] > 0 =>
                             /\ b \in DOMAIN selector'.totals
                             /\ selector'.totals[b] =
                                   TotalOf(selector.totals, b) + weight[b]
                                     - (IF call.chosen = b THEN total ELSE 0)
                     /\ \A b \in Backends \ Members(call.backends) :
                           TotalOf(selector'.totals, b) = 0]_vars

\* a backend that had accumulated a positive total was left out of one
\* non-empty call and came back in the next, counting from 0
C36_Witness ==
    /\ selector.kind = "weighted-round-robin"
    /\ Len(selected) = 3
    /\ \E b \in Backends :
          /\ weight[b] > 0
          /\ b \in Members(selected[1].backends)
          /\ selected[1].chosen \notin {0, b}
          /\ selected[2].backends # <<>>
          /\ b \notin Members(selected[2].backends)
          /\ b \in Members(selected[3].backends)
          /\ selected[3].chosen # b
          /\ selector.totals[b] = weight[b]

\* the sum of the running totals of the backends of a list
RECURSIVE SumTotals(_, _)
SumTotals(list, current) ==
    IF list = <<>> THEN 0
    ELSE TotalOf(current, Head(list)) + SumTotals(Tail(list), current)

\* C39: smooth-WRR balance - for a fixed candidate list with at least one
\* positive weight, after every SelectBackend call the running current
\* values of the candidates sum to 0.
C39_SmoothWRRBalance ==
    \A l \in CandidateLists :
       ( /\ selector.kind = "weighted-round-robin"
         /\ Len(selected) > 0
         /\ FixedList(l)
         /\ SumWeights(l, weight) > 0 )
       => /\ SumTotals(l, selector.totals) = 0
          /\ selected[Len(selected)].chosen # 0

\* two calls on the same candidates of unequal weight left non-zero running
\* totals that cancel
C39_Witness ==
    /\ selector.kind = "weighted-round-robin"
    /\ Len(selected) = 2
    /\ \E l \in CandidateLists :
          /\ Len(l) = NumBackends
          /\ FixedList(l)
          /\ \A b \in Members(l) : weight[b] > 0
          /\ \E a, b \in Members(l) : weight[a] # weight[b]
          /\ \E b \in Members(l) : selector.totals[b] > 0
          /\ SumTotals(l, selector.totals) = 0

\* C37: key isolation under concurrency - of concurrent
\* GetAndReserveServerWithKey calls with different keys on the same
\* consistent-hash strategy each returns the ring owner of its own key, never
\* the backend another caller's key determines.
C37_KeyIsolation ==
    \A r \in Requests :
       (HasSetKey(cfg.strategy) /\ req[r].nextServer # 0)
          => req[r].nextServer = lookup(strat.ring, ClientIPChecksum[req[r].clientIP])

\* two requests in flight at once, with different keys, hold different
\* backends, each the owner of its own key
C37_Witness ==
    /\ HasSetKey(cfg.strategy)
    /\ \E r1, r2 \in Requests :
          /\ req[r1].pc \in {"allow", "forward", "proxy", "record"}
          /\ req[r2].pc \in {"allow", "forward", "proxy", "record"}
          /\ req[r1].clientIP # req[r2].clientIP
          /\ req[r1].nextServer # req[r2].nextServer
          /\ strat.hashKey = ClientIPChecksum[req[r2].clientIP]
          /\ req[r1].nextServer = lookup(strat.ring, ClientIPChecksum[req[r1].clientIP])

\* C38: the recovery timer restarts on every failure - the reset timeout is
\* measured from the most recent RecordFailure, in any state: the time
\* elapsed since the last failure is reset by every RecordFailure and by
\* nothing else, an OPEN breaker admits exactly when it has reached
\* resetTimeout, and so after a failed probe in HALF_OPEN or a late failure
\* recorded while OPEN Allow returns false until a full resetTimeout has
\* passed since that failure.
C38_TimerRestartsOnFailure ==
    [][ /\ (lastOp' = "RecordFailure" /\ ops' = ops + 1) =>
              /\ cb'.age = 0
              /\ cb.state \in {StateOpen, StateHalfOpen} =>
                    (cb'.state = StateOpen /\ ~Allow(cb').ok)
        /\ (lastOp' \in {"Allow", "RecordSuccess"} /\ ops' = ops + 1) => cb'.age = cb.age
        /\ (ops' = ops) => (cb.age < ResetTimeout /\ cb'.age = cb.age + 1
                             /\ cb'.state = cb.state)
        /\ (cb.state = StateOpen /\ lastOp' = "Allow" /\ ops' = ops + 1) =>
              (lastAllow' <=> cb.age >= ResetTimeout)
      ]_vars

\* the probe admitted after the timeout failed: the breaker is OPEN again
\* with the timer at 0, and Allow refuses
C38_Witness ==
    /\ lastOp = "RecordFailure"
    /\ prevState = StateHalfOpen
    /\ cb.state = StateOpen
    /\ cb.age = 0
    /\ ~Allow(cb).ok

\* the first SelectBackend call that had candidates to build a ring from
FirstBuild(i) ==
    /\ selected[i].backends # <<>>
    /\ \A j \in 1..(i - 1) : selected[j].backends = <<>>

\* until Rebuild is called, every selection made since the ring was built
\* returned a candidate of the call that built it, and the ring is the one
\* built from that call's list
FrozenUntilRebuild ==
    Rebuilds = {} =>
       \A f, i \in 1..Len(selected) :
          (FirstBuild(f) /\ i >= f)
             => /\ selected[i].chosen \in Members(selected[f].backends)
                /\ selector.ring = Rings(selected[f].backends)

====
